---- MODULE Spec2Model ----
(***************************************************************************)
(* A model of the EST tokenizer's matching core: DecisionEngine,           *)
(* SemanticExpander, ContextDetector, ScoringSystem and RecursiveEngine.   *)
(*                                                                         *)
(* Scores are Python floats in the source.  Here a score is an integer     *)
(* number of units, ONE units making 1.0, and every product and quotient   *)
(* of the source is computed exactly in these units (an average rounds     *)
(* down to one unit).  Optional[float] is a sequence: <<>> is None and     *)
(* <<v>> is the float v.                                                   *)
(***************************************************************************)
EXTENDS Integers, Sequences, FiniteSets, TLC

VARIABLES
    pc,      \* the position: which operation runs next, or that it returned
    args,    \* the arguments of the call
    ret,     \* None, or Some of the value returned
    engine,  \* the RecursiveEngine: its dataset, its guidance, the expander's cache
    call     \* the local variables of the running call

vars == <<pc, args, ret, engine, call>>

(***************************************************************************)
(* Units                                                                   *)
(***************************************************************************)
ONE == 1000 * 6000

Pct(n) == (n * ONE) \div 100

None == <<>>

Some(v) == <<v>>

Min(a, b) == IF a <= b THEN a ELSE b

Max(a, b) == IF a >= b THEN a ELSE b

Abs(a) == IF a >= 0 THEN a ELSE 0 - a

(***************************************************************************)
(* The static tables of the source, and the words of the model.  A text,   *)
(* a phrase and a chunk are sequences of words (what text.split() gives);  *)
(* the model's texts hold no comma, so iteration 2 sees one phrase.        *)
(***************************************************************************)
\* self.semantic_concepts: each key with the words it lists.
semantic_concepts ==
    ("divide" :> {"split", "share", "distribute", "portion", "division",
                      "allocation", "separate", "partition", "apportion",
                      "allocate", "parcel", "section"})
    @@ ("share" :> {"divide", "distribute", "portion", "part", "allot",
                     "allocate", "apportion", "parcel", "division", "split"})
    @@ ("distribute" :> {"divide", "share", "allocate", "apportion",
                          "dispense", "allot", "parcel", "portion",
                          "divide up"})
    @@ ("portion" :> {"part", "share", "division", "segment", "piece",
                       "fraction", "allocation", "allotment", "quota"})
    @@ ("part" :> {"portion", "share", "division", "segment", "piece",
                    "fraction", "component", "section"})
    @@ ("property" :> {"possession", "asset", "ownership", "estate",
                        "belonging", "real estate", "land", "holding"})
    @@ ("inheritance" :> {"heritage", "legacy", "estate", "bequest",
                           "patrimony", "endowment", "succession"})
    @@ ("fraction" :> {"portion", "part", "division", "segment", "piece",
                        "numerator", "denominator"})
    @@ ("calculate" :> {"compute", "determine", "figure", "reckon",
                         "work out", "estimate", "assess"})
    @@ ("mathematical" :> {"numeric", "arithmetic", "computational",
                            "quantitative", "numerical"})
    @@ ("free" :> {"liberate", "release", "unbound", "unrestricted",
                    "unfettered"})
    @@ ("obligation" :> {"debt", "duty", "responsibility", "commitment",
                          "liability"})
    @@ ("debt" :> {"obligation", "liability", "indebtedness", "arrears"})
    @@ ("resources" :> {"assets", "materials", "supplies", "means", "funds",
                         "wealth"})
    @@ ("assets" :> {"resources", "property", "possessions", "wealth",
                      "holdings"})
    @@ ("fairly" :> {"equitably", "justly", "evenly", "equally",
                      "impartially"})
    @@ ("cake" :> {"food", "dessert", "sweet", "pastry"})
    @@ ("portions" :> {"parts", "shares", "divisions", "segments", "pieces"})
    @@ ("how" :> {"method", "way", "manner", "process", "technique"})
    @@ ("to" :> {})
    @@ ("a" :> {})
    @@ ("into" :> {"toward", "towards", "to"})
    @@ ("llm" :> {"large language model", "language model", "ai model",
                   "neural network", "machine learning",
                   "artificial intelligence"})
    @@ ("transformer" :> {"transform", "convert", "change", "modify",
                           "neural network", "ai architecture", "model"})
    @@ ("attention" :> {"focus", "concentration", "awareness", "mechanism",
                         "process", "neural attention"})
    @@ ("mechanism" :> {"process", "method", "system", "function",
                         "operation", "procedure"})
    @@ ("mechanisms" :> {"processes", "methods", "systems", "functions",
                          "operations", "procedures"})
    @@ ("natural" :> {"organic", "normal", "inherent", "intrinsic",
                       "native"})
    @@ ("language" :> {"speech", "communication", "tongue", "dialect",
                        "linguistic"})
    @@ ("processing" :> {"handling", "managing", "analyzing", "computing",
                          "executing"})
    @@ ("use" :> {"utilize", "employ", "apply", "operate", "function"})
    @@ ("for" :> {})

\* self.context_patterns, in declaration order; a weight is in tenths.
context_patterns ==
    <<
      [name |-> "legal", weight |-> 10,
       keywords |-> {"property", "inheritance", "debt", "obligation", "legal",
                    "contract", "law", "right", "claim", "ownership",
                    "estate", "will", "testament", "heir", "co-heir",
                    "ancestral"}],
      [name |-> "mathematical", weight |-> 10,
       keywords |-> {"fraction", "calculation", "mathematical", "numerator",
                    "denominator", "divide", "multiply", "sum", "number",
                    "count", "calculate", "compute"}],
      [name |-> "economic", weight |-> 10,
       keywords |-> {"resources", "assets", "wealth", "property",
                    "distribution", "allocation", "share", "portion",
                    "fairly", "equitably"}],
      [name |-> "food", weight |-> 5,
       keywords |-> {"cake", "food", "dessert", "meal", "eating", "cooking"}],
      [name |-> "action", weight |-> 8,
       keywords |-> {"divide", "share", "distribute", "allocate", "split",
                    "separate"}],
      [name |-> "social", weight |-> 9,
       keywords |-> {"people", "family", "relative", "community", "society"}],
      [name |-> "technical", weight |-> 10,
       keywords |-> {"llm", "transformer", "attention", "mechanism",
                    "processing", "neural", "ai", "machine learning",
                    "artificial intelligence"}],
      [name |-> "ai", weight |-> 10,
       keywords |-> {"artificial intelligence", "machine learning",
                    "neural network", "language model", "transformer",
                    "attention mechanism"}]
    >>

\* process_text: the stop words kept as they are.
stop_words ==
    {"the", "a", "an", "and", "or", "but", "in", "on", "at", "to", "for",
     "of", "with", "by", "from", "as", "is", "are", "was", "were", "do",
     "does", "did", "we", "need", "how", "into", "have", "has", "had",
     "will", "would", "could", "should"}

\* expand_text: the stop words it filters out.
expand_stop_words ==
    {"the", "a", "an", "and", "or", "but", "in", "on", "at", "to", "for",
     "of", "with", "by", "from", "as", "is", "are", "was", "were"}

\* SemanticChunker.verbs.
verbs ==
    {"address", "addressed", "addresses", "addressing", "allow", "allowed",
     "allowing", "allows", "applied", "applies", "apply", "applying", "are",
     "ask", "asked", "asking", "asks", "be", "been", "being", "calculate",
     "calculated", "calculates", "calculating", "call", "called", "calling",
     "calls", "came", "come", "comes", "coming", "consider", "considered",
     "considering", "considers", "depend", "depended", "depending",
     "depends", "design", "designed", "designing", "designs", "determine",
     "determined", "determines", "determining", "develop", "developed",
     "developing", "develops", "did", "distribute", "distributed",
     "distributes", "distributing", "do", "does", "doing", "enable",
     "enabled", "enables", "enabling", "ensure", "ensured", "ensures",
     "ensuring", "establish", "established", "establishes", "establishing",
     "expand", "expanded", "expanding", "expands", "expect", "expected",
     "expecting", "expects", "explore", "explored", "explores", "exploring",
     "facilitate", "facilitated", "facilitates", "facilitating", "find",
     "finding", "finds", "formulate", "formulated", "formulates",
     "formulating", "found", "gave", "generate", "generated", "generates",
     "generating", "get", "gets", "getting", "give", "gives", "giving", "go",
     "goes", "going", "got", "govern", "governed", "governing", "governs",
     "had", "has", "have", "having", "identified", "identifies", "identify",
     "identifying", "implement", "implemented", "implementing", "implements",
     "improve", "improved", "improves", "improving", "increase", "increased",
     "increases", "increasing", "integrate", "integrated", "integrates",
     "integrating", "interact", "interacted", "interacting", "interacts",
     "interpret", "interpreted", "interpreting", "interprets", "is", "knew",
     "know", "knowing", "knows", "learn", "learned", "learning", "learns",
     "look", "looked", "looking", "looks", "made", "make", "makes", "making",
     "need", "needed", "needing", "needs", "process", "processed",
     "processes", "processing", "provide", "provided", "provides",
     "providing", "represent", "represented", "representing", "represents",
     "require", "required", "requires", "requiring", "said", "saw", "say",
     "saying", "says", "see", "seeing", "sees", "solve", "solved", "solves",
     "solving", "support", "supported", "supporting", "supports", "take",
     "takes", "taking", "think", "thinking", "thinks", "thought", "took",
     "transform", "transformed", "transforming", "transforms", "tried",
     "tries", "try", "trying", "understand", "understanding", "understands",
     "understood", "use", "used", "uses", "using", "want", "wanted",
     "wanting", "wants", "was", "went", "were", "work", "worked", "working",
     "works"}

\* The words of the model: what a text, a phrase or an entry field is made of.
Words == {"cake", "Cake.", "dog", "use", "the", "debt", "food", "duty",
         "legal"}

\* w.lower().strip('.,!?;:()[]{}') for each word of the model.
lower_strip ==
    ("cake" :> "cake")
    @@ ("Cake." :> "cake")
    @@ ("dog" :> "dog")
    @@ ("use" :> "use")
    @@ ("the" :> "the")
    @@ ("debt" :> "debt")
    @@ ("food" :> "food")
    @@ ("duty" :> "duty")
    @@ ("legal" :> "legal")

\* re.findall(r'\b[a-z]{2,}\b', w.lower()) for each word of the model.
regex_words ==
    ("cake" :> <<"cake">>)
    @@ ("Cake." :> <<"cake">>)
    @@ ("dog" :> <<"dog">>)
    @@ ("use" :> <<"use">>)
    @@ ("the" :> <<"the">>)
    @@ ("debt" :> <<"debt">>)
    @@ ("food" :> <<"food">>)
    @@ ("duty" :> <<"duty">>)
    @@ ("legal" :> <<"legal">>)

\* Python's "needle in w.lower()" for each word of the model: the context
\* keywords and context names that occur in it as substrings.
occurring_in ==
    ("cake" :> {"cake"})
    @@ ("Cake." :> {"cake"})
    @@ ("dog" :> {})
    @@ ("use" :> {})
    @@ ("the" :> {})
    @@ ("debt" :> {"debt"})
    @@ ("food" :> {"food"})
    @@ ("duty" :> {})
    @@ ("legal" :> {"legal"})

\* self.context_groups, in declaration order.
context_groups ==
    <<
      [name |-> "legal",
       words |-> {"property", "inheritance", "debt", "obligation", "legal",
                 "contract", "law", "right", "claim", "ownership", "estate",
                 "will", "testament"}],
      [name |-> "mathematical",
       words |-> {"fraction", "calculation", "mathematical", "numerator",
                 "denominator", "divide", "multiply", "sum", "number",
                 "count"}],
      [name |-> "economic",
       words |-> {"resources", "assets", "wealth", "property", "distribution",
                 "allocation", "share", "portion"}],
      [name |-> "food",
       words |-> {"cake", "food", "dessert", "meal", "eating"}],
      [name |-> "action",
       words |-> {"divide", "share", "distribute", "allocate", "split",
                 "separate"}],
      [name |-> "technical",
       words |-> {"llm", "transformer", "attention", "mechanism",
                 "processing", "neural", "ai", "machine learning",
                 "artificial intelligence"}],
      [name |-> "ai",
       words |-> {"artificial intelligence", "machine learning",
                 "neural network", "language model", "transformer",
                 "attention mechanism"}]
    >>

\* Python's "word in w.lower()" for each word of the model: the words of
\* the context groups that occur in it as substrings.
group_words_in ==
    ("cake" :> {"cake"})
    @@ ("Cake." :> {"cake"})
    @@ ("dog" :> {})
    @@ ("use" :> {})
    @@ ("the" :> {})
    @@ ("debt" :> {"debt"})
    @@ ("food" :> {"food"})
    @@ ("duty" :> {})
    @@ ("legal" :> {"legal"})

\* The words handed to expand_word in the model of the expander alone.
ExpanderWords == {"cake", "Cake", " cake ", "Cake.", "food", "debt", "dog"}

\* word.lower().strip() for the words that it changes.
lower_trimmed ==
    ("Cake" :> "cake")
    @@ (" cake " :> "cake")
    @@ ("Cake." :> "cake.")

(***************************************************************************)
(* SemanticExpander (src/est/semantic_expander.py).  The cache is a         *)
(* function from the words expanded so far, lower-cased and trimmed, to    *)
(* the sets stored for them.                                               *)
(***************************************************************************)
Range(s) == { s[i] : i \in DOMAIN s }

\* _build_reverse_index: the keys that list `value`.
reverse_index(value) ==
    { key \in DOMAIN semantic_concepts : value \in semantic_concepts[key] }

\* word_lower = word.lower().strip()
word_lower(word) == IF word \in DOMAIN lower_trimmed THEN lower_trimmed[word] ELSE word

\* An expansion that leaves out the word itself.
expand_word_compute_NoSelf(word) ==
    (IF word \in DOMAIN semantic_concepts THEN semantic_concepts[word] ELSE {})
    \cup UNION { {key} \cup semantic_concepts[key] : key \in reverse_index(word) }

\* expand_word on a cache miss, for the lower-cased word: the direct lookup,
\* the word itself, and each key that lists the word together with what that
\* key lists.
expand_word_compute(word) ==
    (IF word \in DOMAIN semantic_concepts THEN semantic_concepts[word] ELSE {})
    \cup {word}
    \cup UNION { {key} \cup semantic_concepts[key] : key \in reverse_index(word) }

expand_word(cache, word) ==
    IF word_lower(word) \in DOMAIN cache THEN cache[word_lower(word)]
    ELSE expand_word_compute(word_lower(word))

\* A cache that takes the set as it stands before the reverse lookup.
cache_store_DirectOnly(cache, word) ==
    IF word \in DOMAIN cache THEN cache
    ELSE [w \in (DOMAIN cache) \cup {word} |->
             IF w # word THEN cache[w]
             ELSE (IF word \in DOMAIN semantic_concepts
                   THEN semantic_concepts[word] ELSE {}) \cup {word}]

\* The cache after expand_word of the lower-cased word: on a miss,
\* self._expand_cache[word_lower] = concepts.
cache_store(cache, word) ==
    IF word \in DOMAIN cache THEN cache
    ELSE [w \in (DOMAIN cache) \cup {word} |->
             IF w # word THEN cache[w] ELSE expand_word_compute(word)]

\* The cache after expand_word of each of the words.
RECURSIVE cache_store_all(_, _)
cache_store_all(cache, words) ==
    IF words = {} THEN cache
    ELSE cache_store_all(cache_store(cache, word_lower(CHOOSE w \in words : TRUE)),
                         words \ {CHOOSE w \in words : TRUE})

\* The words expand_text extracts from a text and keeps.
text_words(text) ==
    { w \in UNION { Range(regex_words[x]) : x \in Range(text) } :
        w \notin expand_stop_words }

expand_text(cache, text) ==
    UNION { expand_word(cache, w) : w \in text_words(text) }

\* The words of the context groups that occur in the lower-cased text.
group_words_of(text) == UNION { group_words_in[x] : x \in Range(text) }

\* get_context_concepts: for each context group with a word in the text,
\* those words and what expand_word gives for them.
get_context_concepts(cache, text) ==
    [k \in { k \in DOMAIN context_groups :
               context_groups[k].words \cap group_words_of(text) # {} } |->
        (context_groups[k].words \cap group_words_of(text))
        \cup UNION { expand_word(cache, w) :
                       w \in context_groups[k].words \cap group_words_of(text) }]

\* The first context of the largest set of concepts; None without any.
dominant_context(contexts) ==
    IF DOMAIN contexts = {} THEN None
    ELSE Some(context_groups[
             CHOOSE k \in DOMAIN contexts :
                 /\ \A j \in DOMAIN contexts :
                        Cardinality(contexts[j]) <= Cardinality(contexts[k])
                 /\ \A j \in DOMAIN contexts :
                        j < k => Cardinality(contexts[j]) < Cardinality(contexts[k])].name)

\* expand_with_context; contexts is keyed by the place of the group in
\* context_groups.
expand_with_context(cache, text) ==
    [concepts |-> expand_text(cache, text),
     contexts |-> get_context_concepts(cache, text),
     primary_context |-> dominant_context(get_context_concepts(cache, text))]

(***************************************************************************)
(* ContextDetector (src/est/context_detector.py)                           *)
(***************************************************************************)
\* "keyword in text_lower": no keyword of the tables spans two words of the
\* model, so a keyword occurs in a text when it occurs in one of its words.
occurs_in_text(needle, text) ==
    \E x \in Range(text) : needle \in occurring_in[x]

matched_keywords(i, text) ==
    { k \in context_patterns[i].keywords : occurs_in_text(k, text) }

\* score_i > score_j for score = len(matched) / len(keywords) * weight.
context_score_gt(i, j, text) ==
    Cardinality(matched_keywords(i, text)) * context_patterns[i].weight
        * Cardinality(context_patterns[j].keywords)
    > Cardinality(matched_keywords(j, text)) * context_patterns[j].weight
        * Cardinality(context_patterns[i].keywords)

\* The contexts with a matched keyword; max() keeps the first of the largest.
best_context(text, hit) ==
    CHOOSE i \in hit :
        /\ \A j \in hit : ~ context_score_gt(j, i, text)
        /\ \A j \in hit : j < i => context_score_gt(i, j, text)

detected_from(text, hit) ==
    IF hit = {}
    THEN [primary_context |-> None, context_keywords |-> {}]
    ELSE [primary_context |-> Some(context_patterns[best_context(text, hit)].name),
          context_keywords |-> matched_keywords(best_context(text, hit), text)]

detect_context(text) ==
    detected_from(text, { i \in DOMAIN context_patterns : matched_keywords(i, text) # {} })

\* The weight of the first part of usage_frequency_index whose context is
\* `context` and whose weight parses; None when there is none.
RECURSIVE first_weight_for(_, _)
first_weight_for(parts, context) ==
    IF parts = <<>> THEN None
    ELSE IF Head(parts).context = context /\ Head(parts).weight # None
         THEN Head(parts).weight
         ELSE first_weight_for(Tail(parts), context)

\* The priority, in tenths.
priority_from(detected, word_data) ==
    IF detected.primary_context = None THEN 5
    ELSE IF /\ \E q \in Range(word_data.usage_frequency_index) :
                  detected.primary_context[1] \in occurring_in[q.context]
            /\ first_weight_for(word_data.usage_frequency_index,
                                detected.primary_context[1]) # None
         THEN first_weight_for(word_data.usage_frequency_index,
                               detected.primary_context[1])[1]
         ELSE IF detected.context_keywords
                    \cap Range(word_data.contextual_triggers) # {}
              THEN 7
              ELSE 3

get_context_priority(text, word_data) == priority_from(detect_context(text), word_data)

(***************************************************************************)
(* ScoringSystem (src/est/scoring_system.py).  word_data is a function     *)
(* from the dictionary's tokens to their entries.  An entry's fields:      *)
(*   english               a text                                          *)
(*   semantic_frame        the sections between '|', each a text           *)
(*   contextual_triggers, conceptual_anchors, ambiguity_resolvers          *)
(*                         the words between '|'                           *)
(*   usage_frequency_index the parts between '|', each [context, weight];  *)
(*                         a weight is in tenths, None when float() fails  *)
(*   semantic_neighbors    the tokens between '|'                          *)
(***************************************************************************)
BlankEntry ==
    [english |-> <<>>, semantic_frame |-> <<>>, contextual_triggers |-> <<>>,
     conceptual_anchors |-> <<>>, ambiguity_resolvers |-> <<>>,
     usage_frequency_index |-> <<>>, semantic_neighbors |-> <<>>]

\* self.word_data.get(token, {}): a missing token reads as blank fields.
entry_of(word_data, token) ==
    IF token \in DOMAIN word_data THEN word_data[token] ELSE BlankEntry

\* min(overlap / total, 1.0) if total > 0 else 0.0
overlap_ratio(english_concepts, field_concepts) ==
    IF field_concepts = {} THEN 0
    ELSE Min((Cardinality(english_concepts \cap field_concepts) * ONE)
                 \div Cardinality(field_concepts), ONE)

extract_semantic_concepts(cache, text) == expand_text(cache, text)

compare_frames(cache, word_data, english_chunk, sanskrit_word) ==
    LET frame == entry_of(word_data, sanskrit_word).semantic_frame
    IN  overlap_ratio(extract_semantic_concepts(cache, english_chunk),
                      UNION { expand_text(cache, section) : section \in Range(frame) })

compare_triggers(cache, word_data, english_chunk, sanskrit_word) ==
    LET triggers == entry_of(word_data, sanskrit_word).contextual_triggers
    IN  overlap_ratio(extract_semantic_concepts(cache, english_chunk),
                      UNION { expand_word(cache, t) : t \in Range(triggers) })

compare_anchors(cache, word_data, english_chunk, sanskrit_word) ==
    LET anchors == entry_of(word_data, sanskrit_word).conceptual_anchors
    IN  overlap_ratio(extract_semantic_concepts(cache, english_chunk),
                      UNION { expand_word(cache, a) : a \in Range(anchors) })

\* The sum over the parts whose weight parses: weight * 1.5 for the primary
\* context, weight for a context named among the chunk's concepts.
RECURSIVE frequency_total(_, _, _)
frequency_total(parts, primary_context, english_concepts) ==
    IF parts = <<>> THEN 0
    ELSE LET part == Head(parts)
             rest == frequency_total(Tail(parts), primary_context, english_concepts)
         IN  IF part.weight = None THEN rest
             ELSE IF part.context = primary_context
                  THEN part.weight[1] * 15 * (ONE \div 100) + rest
             ELSE IF part.context \in english_concepts
                  THEN part.weight[1] * (ONE \div 10) + rest
             ELSE rest

\* The unclamped-below version of the source: min(total_weight, 1.0).
get_frequency_score(cache, word_data, english_chunk, sanskrit_word) ==
    LET parts == entry_of(word_data, sanskrit_word).usage_frequency_index
        primary == detect_context(english_chunk).primary_context
    IN  IF parts = <<>> \/ primary = None THEN 0
        ELSE Min(frequency_total(parts, primary[1],
                                 extract_semantic_concepts(cache, english_chunk)),
                 ONE)

compare_english_definition(cache, word_data, english_chunk, sanskrit_candidate) ==
    LET english_def == entry_of(word_data, sanskrit_candidate).english
    IN  overlap_ratio(extract_semantic_concepts(cache, english_chunk),
                      extract_semantic_concepts(cache, english_def))

\* max over the sections with concepts of overlap / len(section_concepts).
prioritize_by_semantic_frame(cache, word_data, english_chunk, sanskrit_candidate) ==
    LET frame == entry_of(word_data, sanskrit_candidate).semantic_frame
        english_concepts == extract_semantic_concepts(cache, english_chunk)
        role_scores ==
            { (Cardinality(english_concepts \cap expand_text(cache, section)) * ONE)
                  \div Cardinality(expand_text(cache, section)) :
              section \in { x \in Range(frame) : expand_text(cache, x) # {} } }
    IN  IF role_scores = {} THEN 0
        ELSE CHOOSE m \in role_scores : \A r \in role_scores : r <= m

use_ambiguity_resolvers(cache, word_data, english_chunk, sanskrit_candidate) ==
    LET resolvers == entry_of(word_data, sanskrit_candidate).ambiguity_resolvers
    IN  overlap_ratio(extract_semantic_concepts(cache, english_chunk),
                      UNION { expand_text(cache, <<r>>) : r \in Range(resolvers) })

\* The loop of apply_frequency_boost and match_frequency_context: the weight
\* of the last part naming `context`, and the largest weight above 0.0 of the
\* other parts; both in tenths.
RECURSIVE exact_and_max(_, _, _, _)
exact_and_max(parts, context, exact_match_weight, max_weight) ==
    IF parts = <<>> THEN <<exact_match_weight, max_weight>>
    ELSE LET part == Head(parts) IN
         IF part.weight = None
         THEN exact_and_max(Tail(parts), context, exact_match_weight, max_weight)
         ELSE IF part.context = context
         THEN exact_and_max(Tail(parts), context, part.weight[1], max_weight)
         ELSE IF part.weight[1] > max_weight
         THEN exact_and_max(Tail(parts), context, exact_match_weight, part.weight[1])
         ELSE exact_and_max(Tail(parts), context, exact_match_weight, max_weight)

\* min(exact_match_weight if exact_match_weight > 0 else max_weight, 1.0)
frequency_weight_for(parts, context) ==
    LET em == exact_and_max(parts, context, 0, 0)
    IN  Min((IF em[1] > 0 THEN em[1] ELSE em[2]) * (ONE \div 10), ONE)

apply_frequency_boost(word_data, english_chunk, sanskrit_candidate) ==
    LET parts == entry_of(word_data, sanskrit_candidate).usage_frequency_index
        primary == detect_context(english_chunk).primary_context
    IN  IF parts = <<>> \/ primary = None THEN 0
        ELSE frequency_weight_for(parts, primary[1])

\* 1.0 for an expected token, 0.8 for a neighbour of one, else 0.0.
apply_neighbor_priority(word_data, expected_tokens, sanskrit_candidate) ==
    IF expected_tokens = <<>> THEN 0
    ELSE IF sanskrit_candidate \in Range(expected_tokens) THEN ONE
    ELSE IF \E t \in Range(expected_tokens) :
                sanskrit_candidate \in Range(entry_of(word_data, t).semantic_neighbors)
         THEN Pct(80)
         ELSE 0

align_with_expected_context(cache, word_data, english_chunk, sanskrit_candidate, expected_context) ==
    LET triggers == entry_of(word_data, sanskrit_candidate).contextual_triggers
        trigger_concepts == UNION { expand_text(cache, <<t>>) : t \in Range(triggers) }
        alignment_score ==
            overlap_ratio(extract_semantic_concepts(cache, english_chunk),
                          trigger_concepts)
    IN  IF triggers = <<>> \/ trigger_concepts = {} THEN 0
        ELSE IF /\ expected_context # None
                /\ \E t \in Range(triggers) : expected_context[1] \in occurring_in[t]
             THEN Min(alignment_score + Pct(20), ONE)
             ELSE alignment_score

match_frequency_context(word_data, expected_context, sanskrit_candidate) ==
    LET parts == entry_of(word_data, sanskrit_candidate).usage_frequency_index
    IN  IF expected_context = None \/ parts = <<>> THEN 0
        ELSE frequency_weight_for(parts, expected_context[1])

\* base_score: the 40/25/20/15 weights and 0.20 for the English definition.
base_score(semantic_frame_match, contextual_triggers, conceptual_anchors, frequency_weight, english_def_match) ==
    (semantic_frame_match * 40 + contextual_triggers * 25 + conceptual_anchors * 20
        + frequency_weight * 15 + english_def_match * 20) \div 100

\* precision_boosts; context_priority is in tenths.
precision_boosts(frame_prioritization, ambiguity_resolver_match, frequency_boost, context_priority) ==
    ((IF frame_prioritization > Pct(70) THEN frame_prioritization * 5 ELSE 0)
      + (IF ambiguity_resolver_match > Pct(60) THEN ambiguity_resolver_match * 5 ELSE 0)
      + (IF frequency_boost > Pct(50) THEN frequency_boost * 3 ELSE 0)) \div 100
    + (IF context_priority > 5 THEN context_priority * (ONE \div 500) ELSE 0)

\* expected_token_boosts, given that expected_tokens or expected_context is set.
expected_token_boosts(neighbor_priority, context_alignment, frequency_context_match) ==
    (IF neighbor_priority >= ONE THEN Pct(10)
     ELSE IF neighbor_priority >= Pct(80) THEN Pct(5) ELSE 0)
    + ((IF context_alignment > Pct(70) THEN context_alignment * 5 ELSE 0)
       + (IF frequency_context_match > Pct(50) THEN frequency_context_match * 3 ELSE 0))
      \div 100

\* total_score = min(base_score + min(boosts, 0.20), 1.0)
total_score(base, precision, expected) ==
    Min(base + Min(precision + expected, Pct(20)), ONE)

\* Tuple[0] of calculate_score: total_score.  expected_tokens is a sequence
\* (empty for None or []), expected_context is None or Some(name).
calculate_score(cache, word_data, english_chunk, sanskrit_candidate, expected_tokens, expected_context) ==
    total_score(
        base_score(
            compare_frames(cache, word_data, english_chunk, sanskrit_candidate),
            compare_triggers(cache, word_data, english_chunk, sanskrit_candidate),
            compare_anchors(cache, word_data, english_chunk, sanskrit_candidate),
            get_frequency_score(cache, word_data, english_chunk, sanskrit_candidate),
            compare_english_definition(cache, word_data, english_chunk,
                                       sanskrit_candidate)),
        precision_boosts(
            prioritize_by_semantic_frame(cache, word_data, english_chunk,
                                         sanskrit_candidate),
            use_ambiguity_resolvers(cache, word_data, english_chunk, sanskrit_candidate),
            apply_frequency_boost(word_data, english_chunk, sanskrit_candidate),
            get_context_priority(english_chunk, entry_of(word_data, sanskrit_candidate))),
        IF expected_tokens = <<>> /\ expected_context = None THEN 0
        ELSE expected_token_boosts(
                 IF expected_tokens # <<>>
                 THEN apply_neighbor_priority(word_data, expected_tokens,
                                              sanskrit_candidate)
                 ELSE 0,
                 IF expected_context # None
                 THEN align_with_expected_context(cache, word_data, english_chunk,
                                                  sanskrit_candidate, expected_context)
                 ELSE 0,
                 IF expected_context # None
                 THEN match_frequency_context(word_data, expected_context,
                                              sanskrit_candidate)
                 ELSE 0))

(***************************************************************************)
(* A candidate list is a sequence of [token, score]; list.sort(key=score,  *)
(* reverse=True) is stable.                                                *)
(***************************************************************************)
RECURSIVE insert_desc(_, _)
insert_desc(x, sorted) ==
    IF sorted = <<>> THEN <<x>>
    ELSE IF Head(sorted).score > x.score
         THEN <<Head(sorted)>> \o insert_desc(x, Tail(sorted))
         ELSE <<x>> \o sorted

RECURSIVE sort_desc(_)
sort_desc(matches) ==
    IF matches = <<>> THEN <<>>
    ELSE insert_desc(Head(matches), sort_desc(Tail(matches)))

Take(s, n) == SubSeq(s, 1, Min(n, Len(s)))

\* ContextDetector.context_aware_filter: with a primary context, each score
\* becomes score * (0.7 + priority * 0.3) and the list is sorted again.
\* A slip the claims must notice: candidates of equal boosted score handed
\* back in the reverse of their original order.
context_aware_filter_TiesReversed(text, sanskrit_candidates, word_data) ==
    IF detect_context(text).primary_context = None THEN sanskrit_candidates
    ELSE sort_desc(
           [i \in DOMAIN sanskrit_candidates |->
              [token |-> sanskrit_candidates[Len(sanskrit_candidates) + 1 - i].token,
               score |-> (sanskrit_candidates[Len(sanskrit_candidates) + 1 - i].score
                            * (70 + 3 * get_context_priority(text,
                                   entry_of(word_data,
                                       sanskrit_candidates[Len(sanskrit_candidates) + 1 - i].token))))
                         \div 100]])

context_aware_filter(text, sanskrit_candidates, word_data) ==
    IF detect_context(text).primary_context = None THEN sanskrit_candidates
    ELSE sort_desc(
           [i \in DOMAIN sanskrit_candidates |->
              [token |-> sanskrit_candidates[i].token,
               score |-> (sanskrit_candidates[i].score
                            * (70 + 3 * get_context_priority(text,
                                   entry_of(word_data, sanskrit_candidates[i].token))))
                         \div 100]])

(***************************************************************************)
(* ScoringSystem.find_best_matches.  word_list is list(word_data.keys()):  *)
(* the dictionary's tokens in the order the dataset lists them.            *)
(***************************************************************************)
early_exit_threshold == Pct(25)

search_max_iterations == 500

quick_exit_iterations == 100

\* The loop over expected_tokens: each one in the dictionary whose score is
\* above 0 is a match with its score * 1.1.
expected_match(token, score) ==
    IF score > 0 THEN <<[token |-> token, score |-> (score * 11) \div 10]>> ELSE <<>>

RECURSIVE expected_matches(_, _, _, _, _, _)
expected_matches(cache, word_data, english_chunk, tokens, expected_tokens, expected_context) ==
    IF tokens = <<>> THEN <<>>
    ELSE expected_match(Head(tokens),
                        IF Head(tokens) \in DOMAIN word_data
                        THEN calculate_score(cache, word_data, english_chunk,
                                             Head(tokens), expected_tokens,
                                             expected_context)
                        ELSE 0)
         \o expected_matches(cache, word_data, english_chunk, Tail(tokens),
                             expected_tokens, expected_context)

\* The sort, the context filter and the cut that end every path.
ranked(word_data, english_chunk, matches, top_n) ==
    Take(context_aware_filter(english_chunk, sort_desc(matches), word_data), top_n)

RECURSIVE search_words(_, _, _, _, _, _, _, _, _, _)
\* After an admitted match: the four early exits, else the next word.
search_admitted(cache, word_data, word_list, k, appended, high, best, english_chunk, top_n, guidance) ==
    IF \/ (best.last >= early_exit_threshold /\ high >= top_n /\ Len(appended) >= top_n)
       \/ Len(appended) >= top_n * 3
       \/ (Len(appended) >= top_n /\ sort_desc(appended)[1].score >= Pct(15))
       \/ (Len(appended) >= 3 /\ best.so_far >= Pct(40))
    THEN ranked(word_data, english_chunk, appended, top_n)
    ELSE search_words(cache, word_data, word_list, k + 1,
                      IF Len(appended) >= top_n THEN sort_desc(appended) ELSE appended,
                      high, best.so_far, english_chunk, top_n, guidance)

\* The word's score is known: it is skipped unless above 0.
search_scored(cache, word_data, word_list, k, matches, high_score_count, best_score_so_far, english_chunk, top_n, guidance, score) ==
    IF score <= 0
    THEN search_words(cache, word_data, word_list, k + 1, matches, high_score_count,
                      best_score_so_far, english_chunk, top_n, guidance)
    ELSE search_admitted(cache, word_data, word_list, k,
                         Append(matches, [token |-> word_list[k], score |-> score]),
                         IF score >= early_exit_threshold
                         THEN high_score_count + 1 ELSE high_score_count,
                         [last |-> score, so_far |-> Max(best_score_so_far, score)],
                         english_chunk, top_n, guidance)

\* The loop over word_list from its k-th token on.
search_words(cache, word_data, word_list, k, matches, high_score_count, best_score_so_far, english_chunk, top_n, guidance) ==
    IF \/ k > Len(word_list)
       \/ (k > quick_exit_iterations /\ best_score_so_far < Pct(10) /\ matches = <<>>)
       \/ k > search_max_iterations
    THEN ranked(word_data, english_chunk, matches, top_n)
    ELSE search_scored(cache, word_data, word_list, k, matches, high_score_count,
                       best_score_so_far, english_chunk, top_n, guidance,
                       IF \E i \in DOMAIN matches : matches[i].token = word_list[k]
                       THEN 0
                       ELSE calculate_score(cache, word_data, english_chunk,
                                            word_list[k], guidance.expected_tokens,
                                            guidance.expected_context))

\* guidance is [expected_tokens, expected_context].
find_best_matches(cache, word_data, word_list, english_chunk, top_n, guidance) ==
    search_words(cache, word_data, word_list, 1,
                 expected_matches(cache, word_data, english_chunk,
                                  guidance.expected_tokens,
                                  guidance.expected_tokens,
                                  guidance.expected_context),
                 0, 0, english_chunk, top_n, guidance)

(***************************************************************************)
(* DecisionEngine (src/est/decision_engine.py)                             *)
(***************************************************************************)
ACCEPT == "ACCEPT"

CONTINUE == "CONTINUE"

REJECT == "REJECT"

accept_threshold == Pct(80)

continue_threshold == Pct(60)

\* context_loss_threshold = 0.40, kept as a percentage: x / p <= 0.40 is
\* 100 * x <= 40 * p for p > 0.
context_loss_threshold == 40

max_iterations == 5

\* A slip the claims must notice: no previous score read as "not maintained".
context_maintained_NoneLost(current_score, previous_score) ==
    IF previous_score = None THEN FALSE
    ELSE LET p == previous_score[1] IN
         IF p > 0
         THEN 100 * Abs(current_score - p) <= context_loss_threshold * p
         ELSE 100 <= context_loss_threshold

\* abs(current - previous) / previous <= 0.40; the loss is 1.0 when previous <= 0.
context_maintained(current_score, previous_score) ==
    IF previous_score = None THEN TRUE
    ELSE LET p == previous_score[1] IN
         IF p > 0
         THEN 100 * Abs(current_score - p) <= context_loss_threshold * p
         ELSE 100 <= context_loss_threshold

\* A slip the claims must notice: any change of more than 40%, a rise as
\* well as a drop, and any score after a previous score of 0, taken for
\* degradation.
context_degradation_detected_AnyChange(current_score, previous_score) ==
    IF previous_score = None THEN FALSE
    ELSE LET p == previous_score[1] IN
         IF p > 0
         THEN 100 * Abs(current_score - p) > context_loss_threshold * p
         ELSE TRUE

\* (previous - current) / previous > 0.40; the degradation is 0.0 when previous <= 0.
context_degradation_detected(current_score, previous_score) ==
    IF previous_score = None THEN FALSE
    ELSE LET p == previous_score[1] IN
         IF p > 0
         THEN 100 * (p - current_score) > context_loss_threshold * p
         ELSE 0 > context_loss_threshold

\* A slip the claims must notice: the score bands decided before the
\* degradation check.
make_decision_BandsFirst(score, previous_score, iteration) ==
    IF score >= accept_threshold
    THEN IF context_maintained(score, previous_score) THEN ACCEPT
         ELSE IF iteration < max_iterations THEN CONTINUE ELSE ACCEPT
    ELSE IF score >= continue_threshold
         THEN IF iteration < max_iterations THEN CONTINUE
              ELSE IF context_maintained(score, previous_score) THEN ACCEPT
                   ELSE REJECT
    ELSE IF context_degradation_detected(score, previous_score) THEN REJECT
    ELSE IF context_maintained(score, previous_score)
         THEN IF iteration < 3 THEN CONTINUE ELSE REJECT
         ELSE REJECT

\* A slip the claims must notice: a medium score accepted at the final
\* iteration whether or not the context is maintained.
make_decision_FinalAccepts(score, previous_score, iteration) ==
    IF context_degradation_detected(score, previous_score) THEN REJECT
    ELSE IF score >= accept_threshold
         THEN IF context_maintained(score, previous_score) THEN ACCEPT
              ELSE IF iteration < max_iterations THEN CONTINUE ELSE ACCEPT
    ELSE IF score >= continue_threshold
         THEN IF iteration < max_iterations THEN CONTINUE ELSE ACCEPT
    ELSE IF context_maintained(score, previous_score)
         THEN IF iteration < 3 THEN CONTINUE ELSE REJECT
         ELSE REJECT

\* A slip the claims must notice: a low score continued through iteration 3.
make_decision_LongGrace(score, previous_score, iteration) ==
    IF context_degradation_detected(score, previous_score) THEN REJECT
    ELSE IF score >= accept_threshold
         THEN IF context_maintained(score, previous_score) THEN ACCEPT
              ELSE IF iteration < max_iterations THEN CONTINUE ELSE ACCEPT
    ELSE IF score >= continue_threshold
         THEN IF iteration < max_iterations THEN CONTINUE
              ELSE IF context_maintained(score, previous_score) THEN ACCEPT
                   ELSE REJECT
    ELSE IF context_maintained(score, previous_score)
         THEN IF iteration <= 3 THEN CONTINUE ELSE REJECT
         ELSE REJECT

\* A slip the claims must notice: a high score whose context is not
\* maintained continued at every iteration, the final one included.
make_decision_NeverSettles(score, previous_score, iteration) ==
    IF context_degradation_detected(score, previous_score) THEN REJECT
    ELSE IF score >= accept_threshold
         THEN IF context_maintained(score, previous_score) THEN ACCEPT
              ELSE CONTINUE
    ELSE IF score >= continue_threshold
         THEN IF iteration < max_iterations THEN CONTINUE
              ELSE IF context_maintained(score, previous_score) THEN ACCEPT
                   ELSE REJECT
    ELSE IF context_maintained(score, previous_score)
         THEN IF iteration < 3 THEN CONTINUE ELSE REJECT
         ELSE REJECT

make_decision(score, previous_score, iteration) ==
    IF context_degradation_detected(score, previous_score) THEN REJECT
    ELSE IF score >= accept_threshold
         THEN IF context_maintained(score, previous_score) THEN ACCEPT
              ELSE IF iteration < max_iterations THEN CONTINUE ELSE ACCEPT
    ELSE IF score >= continue_threshold
         THEN IF iteration < max_iterations THEN CONTINUE
              ELSE IF context_maintained(score, previous_score) THEN ACCEPT
                   ELSE REJECT
    ELSE IF context_maintained(score, previous_score)
         THEN IF iteration < 3 THEN CONTINUE ELSE REJECT
         ELSE REJECT

(***************************************************************************)
(* make_decision as a state machine: the arguments are drawn from a grid   *)
(* of scores, the call returns a Decision.                                 *)
(***************************************************************************)
GridN == 40

\* make_decision is called with iterations 1..5; the model hands it one more.
MaxIteration == 6

\* 0.0 .. 1.1 in steps of 1/GridN: find_best_matches hands out scores up to
\* 1.1 (an expected token's score is multiplied by 1.1).
ScoreGrid == { (k * ONE) \div GridN : k \in 0..((11 * GridN) \div 10) }

DecisionInit ==
    /\ pc = "make_decision"
    /\ args \in [score : ScoreGrid,
                  previous_score : {None} \cup { Some(p) : p \in ScoreGrid },
                  iteration : 1..MaxIteration]
    /\ ret = None
    /\ engine = None
    /\ call = None

MakeDecision ==
    /\ pc = "make_decision"
    /\ ret' = Some(make_decision(args.score, args.previous_score, args.iteration))
    /\ pc' = "decided"
    /\ UNCHANGED <<args, engine, call>>

DecisionNext == MakeDecision

SpecDecision == DecisionInit /\ [][DecisionNext]_vars

(***************************************************************************)
(* SemanticChunker (src/est/semantic_chunker.py).  Positions are 1-based.  *)
(***************************************************************************)
is_verb(word) == lower_strip[word] \in verbs

\* The first verb among words[i .. min(i + 9, n)]; 0 when there is none.
next_verb(words, i) ==
    IF \E j \in i..Min(i + 9, Len(words)) : is_verb(words[j])
    THEN CHOOSE j \in i..Min(i + 9, Len(words)) :
             /\ is_verb(words[j])
             /\ \A k \in i..(j - 1) : ~ is_verb(words[k])
    ELSE 0

\* The last word of the object after the verb at verb_idx: up to 8 words, and
\* none of them a verb; verb_idx when the object is empty.
object_end(words, verb_idx) ==
    CHOOSE e \in verb_idx..Min(verb_idx + 8, Len(words)) :
        /\ \A k \in (verb_idx + 1)..e : ~ is_verb(words[k])
        /\ (e = Min(verb_idx + 8, Len(words)) \/ is_verb(words[e + 1]))

unit(type, words) == [type |-> type, words |-> words]

\* The units of one SVO chunk: subject, verb and object, those that exist.
svo_units(words, i, verb_idx, last) ==
    (IF verb_idx > i THEN <<unit("subject", SubSeq(words, i, verb_idx - 1))>> ELSE <<>>)
    \o <<unit("verb", <<words[verb_idx]>>)>>
    \o (IF last > verb_idx
        THEN <<unit("object", SubSeq(words, verb_idx + 1, last))>> ELSE <<>>)

\* extract_svo_chunks and group_semantic_units, from position i on.
RECURSIVE units_from(_, _)
units_from(words, i) ==
    IF i > Len(words) THEN <<>>
    ELSE IF next_verb(words, i) = 0
    THEN <<unit("noun_phrase", SubSeq(words, i, Len(words)))>>
    ELSE svo_units(words, i, next_verb(words, i),
                   object_end(words, next_verb(words, i)))
         \o units_from(words, object_end(words, next_verb(words, i)) + 1)

group_semantic_units(text) == units_from(text, 1)

has_types(units, i, types) ==
    /\ i + Len(types) - 1 <= Len(units)
    /\ \A k \in DOMAIN types : units[i + k - 1].type = types[k]

\* The phrases from unit i on: subject-verb-object, subject-verb,
\* verb-object, else the unit alone.
RECURSIVE phrases_from(_, _)
phrases_from(units, i) ==
    IF i > Len(units) THEN <<>>
    ELSE IF has_types(units, i, <<"subject", "verb", "object">>)
    THEN <<units[i].words \o units[i + 1].words \o units[i + 2].words>>
         \o phrases_from(units, i + 3)
    ELSE IF \/ has_types(units, i, <<"subject", "verb">>)
            \/ has_types(units, i, <<"verb", "object">>)
    THEN <<units[i].words \o units[i + 1].words>> \o phrases_from(units, i + 2)
    ELSE <<units[i].words>> \o phrases_from(units, i + 1)

create_semantic_phrases(text) == phrases_from(group_semantic_units(text), 1)

(***************************************************************************)
(* RecursiveEngine (src/est/recursive_engine.py).  `self` is the engine:   *)
(*   word_data, word_list   the dataset, and its tokens in CSV order       *)
(*   expected_tokens, expected_context   the guidance last stored          *)
(*   expansion_cache        the SemanticExpander's cache                   *)
(* An iteration result is a record:                                        *)
(*   iteration, chunk, score, decision   as in the source                  *)
(*   sanskrit       None, or Some of the words that ' '.join puts together *)
(*   previous_score the previous_score argument the iteration was given    *)
(*   decided        whether the iteration called make_decision             *)
(***************************************************************************)
guidance_of(self) ==
    [expected_tokens |-> self.expected_tokens, expected_context |-> self.expected_context]

\* self.scoring_system.find_best_matches(text, top_n, self.expected_tokens,
\* self.expected_context)
best_matches(self, text, top_n) ==
    find_best_matches(self.expansion_cache, self.word_data, self.word_list, text,
                      top_n, guidance_of(self))

\* The result of an iteration that matched: make_decision decides.
matched_result(iteration, text, sanskrit, score, previous_score) ==
    [iteration |-> iteration, chunk |-> text, sanskrit |-> Some(sanskrit),
     score |-> score, decision |-> make_decision(score, previous_score, iteration),
     previous_score |-> previous_score, decided |-> TRUE]

\* The result of an iteration that found nothing: score 0.0, no token.
unmatched_result(iteration, text, decision, previous_score) ==
    [iteration |-> iteration, chunk |-> text, sanskrit |-> None, score |-> 0,
     decision |-> decision, previous_score |-> previous_score, decided |-> FALSE]

first_match_result(iteration, text, matches, previous_score) ==
    IF matches # <<>>
    THEN matched_result(iteration, text, <<matches[1].token>>, matches[1].score,
                        previous_score)
    ELSE unmatched_result(iteration, text, CONTINUE, previous_score)

iteration1_full_sentence(self, text, previous_score) ==
    first_match_result(1, text, best_matches(self, text, 1), previous_score)

\* The texts of the model hold no comma: the phrases are [text].
phrase_result(text, matches, previous_score) ==
    IF matches # <<>> /\ matches[1].score >= Pct(60)
    THEN matched_result(2, text, <<matches[1].token>>, matches[1].score,
                        previous_score)
    ELSE unmatched_result(2, text, CONTINUE, previous_score)

iteration2_phrase_breakdown(self, text, previous_score) ==
    phrase_result(text, best_matches(self, text, 1), previous_score)

\* The pairs (words[i], words[i+1]) from i on whose best match scores >= 0.60.
good_pair(matches) ==
    IF matches # <<>> /\ matches[1].score >= Pct(60) THEN <<matches[1]>> ELSE <<>>

RECURSIVE pairs_from(_, _, _)
pairs_from(self, words, i) ==
    IF i >= Len(words) THEN <<>>
    ELSE good_pair(best_matches(self, SubSeq(words, i, i + 1), 1))
         \o pairs_from(self, words, i + 1)

\* max(pairs, key=score): the first of the largest.
max_of(first, best_of_rest) ==
    IF best_of_rest.score > first.score THEN best_of_rest ELSE first

RECURSIVE first_max(_)
first_max(items) ==
    IF Len(items) = 1 THEN items[1]
    ELSE max_of(items[1], first_max(Tail(items)))

pairs_result(text, pairs, previous_score) ==
    IF pairs # <<>>
    THEN matched_result(3, text, <<first_max(pairs).token>>, first_max(pairs).score,
                        previous_score)
    ELSE unmatched_result(3, text, CONTINUE, previous_score)

iteration3_verb_object_pairs(self, text, previous_score) ==
    IF Len(text) < 2 THEN unmatched_result(3, text, CONTINUE, previous_score)
    ELSE pairs_result(text, pairs_from(self, text, 1), previous_score)

\* Iteration 4, one word: its token when the best match scores >= 0.60, else
\* the word itself.
word_match(word, matches) ==
    IF matches # <<>> /\ matches[1].score >= Pct(60)
    THEN [word |-> matches[1].token, score |-> matches[1].score]
    ELSE [word |-> word, score |-> 0]

RECURSIVE matched_words_from(_, _, _)
matched_words_from(self, words, i) ==
    IF i > Len(words) THEN <<>>
    ELSE <<word_match(words[i], best_matches(self, <<words[i]>>, 1))>>
         \o matched_words_from(self, words, i + 1)

RECURSIVE sum_scores(_)
sum_scores(items) ==
    IF items = <<>> THEN 0 ELSE Head(items).score + sum_scores(Tail(items))

\* avg_score = total_score / matched_count, where matched_count counts the
\* output words that are tokens of the dataset.
words_result(self, text, matched_words, previous_score) ==
    IF matched_words = <<>> THEN unmatched_result(4, text, CONTINUE, previous_score)
    ELSE matched_result(
             4, text, [i \in DOMAIN matched_words |-> matched_words[i].word],
             IF \E i \in DOMAIN matched_words :
                    matched_words[i].word \in DOMAIN self.word_data
             THEN sum_scores(matched_words)
                    \div Cardinality({ i \in DOMAIN matched_words :
                                         matched_words[i].word \in DOMAIN self.word_data })
             ELSE 0,
             previous_score)

iteration4_individual_words(self, text, previous_score) ==
    words_result(self, text, matched_words_from(self, text, 1), previous_score)

final_result(text, matches, previous_score) ==
    IF matches # <<>> /\ matches[1].score >= Pct(30)
    THEN matched_result(5, text, <<matches[1].token>>, matches[1].score,
                        previous_score)
    ELSE unmatched_result(5, text, REJECT, previous_score)

iteration5_final_resolution(self, text, previous_score) ==
    final_result(text, best_matches(self, text, 5), previous_score)

(***************************************************************************)
(* process_chunk.  Its locals are a record: results, previous_score, and   *)
(* returned, which is None until a return statement is reached.            *)
(***************************************************************************)
chunk_start ==
    [results |-> <<>>, previous_score |-> None, returned |-> None]

ran(locals, iteration) ==
    \E i \in DOMAIN locals.results : locals.results[i].iteration = iteration

result_of(locals, iteration) ==
    locals.results[CHOOSE i \in DOMAIN locals.results :
                       locals.results[i].iteration = iteration]

\* results.append(result); return it on ACCEPT; else previous_score becomes
\* the first score, or a later score that is greater.
after_iteration(locals, result) ==
    [results |-> Append(locals.results, result),
     previous_score |->
        IF result.iteration = 1 \/ result.score > locals.previous_score[1]
        THEN Some(result.score) ELSE locals.previous_score,
     returned |->
        IF result.decision = ACCEPT
        THEN Some([all_iterations |-> None] @@ result) ELSE None]

run_iteration1(self, text, locals) ==
    after_iteration(locals, iteration1_full_sentence(self, text, locals.previous_score))

run_iteration2(self, text, locals) ==
    IF locals.returned # None THEN locals
    ELSE IF result_of(locals, 1).decision = CONTINUE
    THEN after_iteration(locals,
             iteration2_phrase_breakdown(self, text, locals.previous_score))
    ELSE locals

run_iteration3(self, text, locals) ==
    IF locals.returned # None THEN locals
    ELSE IF \/ (ran(locals, 2) /\ result_of(locals, 2).decision = CONTINUE)
            \/ (~ ran(locals, 2) /\ result_of(locals, 1).decision = CONTINUE)
    THEN after_iteration(locals,
             iteration3_verb_object_pairs(self, text, locals.previous_score))
    ELSE locals

run_iteration4(self, text, locals) ==
    IF locals.returned # None THEN locals
    ELSE IF \/ (ran(locals, 3) /\ result_of(locals, 3).decision = CONTINUE)
            \/ (~ ran(locals, 3) /\ result_of(locals, 1).decision = CONTINUE)
    THEN after_iteration(locals,
             iteration4_individual_words(self, text, locals.previous_score))
    ELSE locals

\* Iteration 5 always runs; best_result = max(results, key=score) is returned
\* with all_iterations attached.
best_of(results) ==
    [all_iterations |-> Some(results)] @@ first_max(results)

finish_chunk(locals, result) ==
    [results |-> Append(locals.results, result),
     previous_score |-> locals.previous_score,
     returned |-> Some(best_of(Append(locals.results, result)))]

run_iteration5(self, text, locals) ==
    IF locals.returned # None THEN locals
    ELSE finish_chunk(locals,
             iteration5_final_resolution(self, text, locals.previous_score))

process_chunk(self, text) ==
    run_iteration5(self, text,
        run_iteration4(self, text,
            run_iteration3(self, text,
                run_iteration2(self, text,
                    run_iteration1(self, text, chunk_start))))).returned[1]

(***************************************************************************)
(* RecursiveEngine.process_text.  Positions of original_words are 1-based. *)
(* An output part is [kind, part, covers]: kind "token" with part the      *)
(* matched Sanskrit, or kind "word" with part the original word; covers    *)
(* lists the positions the code holds the part to stand for                *)
(* (phrase_indices, meaningful_indices, or the word's own position).       *)
(***************************************************************************)
semantic_chunking_above == 10
max_window == 6

is_stop_word(w) == lower_strip[w] \in stop_words
clean_word(w) == lower_strip[w]

text_start(text) ==
    [original_words |-> text,
     semantic_phrases |-> IF Len(text) > semantic_chunking_above
                          THEN create_semantic_phrases(text) ELSE <<>>,
     phrase_no |-> 1, i |-> 1,
     processed |-> [idx \in DOMAIN text |-> FALSE],
     output_parts |-> <<>>, word_results |-> <<>>,
     total_confidence |-> 0, matched_count |-> 0]

token_part(result, covers) == [kind |-> "token", part |-> result.sanskrit[1], covers |-> covers]
word_part(word, idx) == [kind |-> "word", part |-> <<word>>, covers |-> <<idx>>]

\* phrase_result.get('sanskrit') and phrase_result.get('score', 0.0) >= threshold
is_match(result, threshold) == result.sanskrit # None /\ result.score >= threshold

meaningful_count(words) == Cardinality({ k \in DOMAIN words : ~ is_stop_word(words[k]) })

\* The first unprocessed position holding the word; 0 when there is none.
first_unprocessed(locals, word) ==
    IF \E idx \in DOMAIN locals.original_words :
           /\ ~ locals.processed[idx]
           /\ clean_word(locals.original_words[idx]) = clean_word(word)
    THEN CHOOSE idx \in DOMAIN locals.original_words :
             /\ ~ locals.processed[idx]
             /\ clean_word(locals.original_words[idx]) = clean_word(word)
             /\ \A k \in 1..(idx - 1) :
                    \/ locals.processed[k]
                    \/ clean_word(locals.original_words[k]) # clean_word(word)
    ELSE 0

\* processed is not updated while the positions of one phrase are looked up.
phrase_indices(locals, phrase_words) ==
    [k \in DOMAIN phrase_words |-> first_unprocessed(locals, phrase_words[k])]

mark_processed(processed, indices) ==
    [idx \in DOMAIN processed |->
        processed[idx] \/ \E k \in DOMAIN indices : indices[k] = idx]

matched(locals, part, result, count) ==
    [locals EXCEPT !.output_parts = Append(@, part),
                   !.word_results = Append(@, result),
                   !.total_confidence = @ + result.score,
                   !.matched_count = @ + count]

phrase_threshold(count) == IF count >= 3 THEN Pct(5) ELSE Pct(10)

pre_pass_result(locals, phrase_words, indices, result) ==
    IF is_match(result, phrase_threshold(Len(phrase_words)))
    THEN [matched(locals, token_part(result, indices), result,
                  meaningful_count(phrase_words))
             EXCEPT !.processed = mark_processed(@, indices)]
    ELSE locals

pre_pass_phrase(self, locals, phrase_words) ==
    IF \/ Len(phrase_words) <= 1
       \/ \E k \in DOMAIN phrase_words : first_unprocessed(locals, phrase_words[k]) = 0
    THEN locals
    ELSE pre_pass_result(locals, phrase_words, phrase_indices(locals, phrase_words),
                         process_chunk(self, phrase_words))

\* One round of the loop over semantic_phrases.
pre_pass_step(self, locals) ==
    [pre_pass_phrase(self, locals, locals.semantic_phrases[locals.phrase_no])
        EXCEPT !.phrase_no = @ + 1]

\* The positions of the window i..end_pos that hold no stop word, in order.
meaningful_indices(locals, i, end_pos) ==
    SelectSeq([k \in 1..(end_pos - i + 1) |-> i + k - 1],
              LAMBDA idx : ~ is_stop_word(locals.original_words[idx]))

clean_words_at(locals, indices) ==
    [k \in DOMAIN indices |-> clean_word(locals.original_words[indices[k]])]

\* best_match after the window i..end_pos was matched with result.
window_candidate(i, end_pos, indices, result, best) ==
    IF /\ is_match(result, phrase_threshold(Len(indices)))
       /\ \/ result.score > (IF best = None THEN 0 ELSE best[1].result.score)
          \/ /\ result.score = (IF best = None THEN 0 ELSE best[1].result.score)
             /\ Len(indices) > (IF best = None THEN 0 ELSE Len(best[1].meaningful_indices))
    THEN Some([result |-> result, word_count |-> end_pos - i + 1,
               meaningful_indices |-> indices])
    ELSE best

try_window(self, locals, i, end_pos, best) ==
    IF \/ \E idx \in i..end_pos : locals.processed[idx]
       \/ Len(meaningful_indices(locals, i, end_pos)) < 2
    THEN best
    ELSE window_candidate(i, end_pos, meaningful_indices(locals, i, end_pos),
             process_chunk(self, clean_words_at(locals, meaningful_indices(locals, i, end_pos))),
             best)

\* The windows i..end_pos, shortest first, of up to max_window words.
RECURSIVE best_window(_, _, _, _, _)
best_window(self, locals, i, end_pos, best) ==
    IF end_pos > Min(i + max_window - 1, Len(locals.original_words)) THEN best
    ELSE best_window(self, locals, i, end_pos + 1,
                     try_window(self, locals, i, end_pos, best))

\* The stop words of the window i..last, each a part of its own.
RECURSIVE stop_word_parts(_, _, _)
stop_word_parts(locals, i, last) ==
    IF i > last THEN <<>>
    ELSE (IF is_stop_word(locals.original_words[i])
          THEN <<word_part(locals.original_words[i], i)>> ELSE <<>>)
         \o stop_word_parts(locals, i + 1, last)

\* The token is appended first, the stop words of its window after it.
\* A slip the claims must notice: only the meaningful words of a matched
\* window marked as processed, its stop words emitted but left unmarked.
emit_best_match_MeaningfulOnly(locals, i, best) ==
    [matched(locals, token_part(best.result, best.meaningful_indices), best.result,
             Len(best.meaningful_indices))
        EXCEPT !.output_parts = @ \o stop_word_parts(locals, i, i + best.word_count - 1),
               !.processed = [idx \in DOMAIN @ |->
                                 @[idx] \/ idx \in Range(best.meaningful_indices)],
               !.i = i + best.word_count]

emit_best_match(locals, i, best) ==
    [matched(locals, token_part(best.result, best.meaningful_indices), best.result,
             Len(best.meaningful_indices))
        EXCEPT !.output_parts = @ \o stop_word_parts(locals, i, i + best.word_count - 1),
               !.processed = [idx \in DOMAIN @ |->
                                 @[idx] \/ idx \in i..(i + best.word_count - 1)],
               !.i = i + best.word_count]

keep_word(locals, idx) ==
    [locals EXCEPT !.output_parts = Append(@, word_part(locals.original_words[idx], idx)),
                   !.processed[idx] = TRUE]

single_word_result(locals, idx, result, min_score) ==
    IF is_match(result, min_score)
    THEN [matched(locals, token_part(result, <<idx>>), result, 1)
             EXCEPT !.processed[idx] = TRUE]
    ELSE keep_word(locals, idx)

single_word(self, locals, idx, min_score) ==
    IF is_stop_word(locals.original_words[idx]) THEN keep_word(locals, idx)
    ELSE single_word_result(locals, idx,
             process_chunk(self, <<clean_word(locals.original_words[idx])>>), min_score)

greedy_choice(self, locals, best) ==
    IF best # None THEN emit_best_match(locals, locals.i, best[1])
    ELSE [single_word(self, locals, locals.i, Pct(5)) EXCEPT !.i = @ + 1]

\* One round of the loop "while i < len(original_words)".
greedy_step(self, locals) ==
    IF locals.processed[locals.i] THEN [locals EXCEPT !.i = @ + 1]
    ELSE greedy_choice(self, locals, best_window(self, locals, locals.i, locals.i, None))

\* The safety check: positions still unprocessed, from idx on.
RECURSIVE safety_check(_, _, _)
safety_check(self, locals, idx) ==
    IF idx > Len(locals.original_words) THEN locals
    ELSE safety_check(self,
             IF locals.processed[idx] THEN locals
             ELSE single_word(self, locals, idx, Pct(25)),
             idx + 1)

RECURSIVE semantic_phrase_pass(_, _)
semantic_phrase_pass(self, locals) ==
    IF locals.phrase_no > Len(locals.semantic_phrases) THEN locals
    ELSE semantic_phrase_pass(self, pre_pass_step(self, locals))

RECURSIVE greedy_matching(_, _)
greedy_matching(self, locals) ==
    IF locals.i > Len(locals.original_words) THEN locals
    ELSE greedy_matching(self, greedy_step(self, locals))

\* len([t for t in sanskrit_output.split(word_separator) if t.strip()]) when
\* the separator occurs, else len(sanskrit_output.split()).
output_tokens(output_parts) ==
    IF Len(output_parts) >= 2 THEN Len(output_parts)
    ELSE IF Len(output_parts) = 1 THEN Len(output_parts[1].part)
    ELSE 0

\* The returned dictionary.  sanskrit_output is the sequence of the parts that
\* the code joins with the doubled space symbol; output_parts keeps, with each
\* part, the positions it stands for.
text_result(text, locals) ==
    [original_text |-> text,
     sanskrit_output |-> [k \in DOMAIN locals.output_parts |-> locals.output_parts[k].part],
     output_parts |-> locals.output_parts,
     confidence |-> IF locals.matched_count > 0
                    THEN locals.total_confidence \div locals.matched_count ELSE 0,
     word_results |-> locals.word_results,
     matched_count |-> locals.matched_count,
     total_words |-> Len(locals.original_words),
     output_tokens |-> output_tokens(locals.output_parts),
     decision |-> IF locals.matched_count > 0 THEN ACCEPT ELSE REJECT]

\* A process_text that stores its guidance only on an engine that holds none.
with_guidance_IfUnset(self, guidance) ==
    IF self.expected_tokens = None /\ self.expected_context = None
    THEN [self EXCEPT !.expected_tokens = guidance.expected_tokens,
                      !.expected_context = guidance.expected_context]
    ELSE self

\* self.expected_tokens = expected_tokens; self.expected_context = expected_context
with_guidance(self, guidance) ==
    [self EXCEPT !.expected_tokens = guidance.expected_tokens,
                 !.expected_context = guidance.expected_context]

process_text(self, text, guidance) ==
    text_result(text,
        safety_check(with_guidance(self, guidance),
            greedy_matching(with_guidance(self, guidance),
                semantic_phrase_pass(with_guidance(self, guidance), text_start(text))),
            1))

\* The words a call on the text can hand to expand_word: those of the text
\* and those of the fields of the dataset.
entry_words(entry) ==
    Range(entry.english) \cup UNION { Range(section) : section \in Range(entry.semantic_frame) }
    \cup Range(entry.contextual_triggers) \cup Range(entry.conceptual_anchors)
    \cup Range(entry.ambiguity_resolvers)

expandable(self, text) ==
    text_words(text) \cup UNION { entry_words(self.word_data[t]) : t \in DOMAIN self.word_data }

\* An expander that also writes what it expanded into the rows of the dataset.
with_expanded_IntoEntries(self, expanded) ==
    [self EXCEPT !.expansion_cache =
                     [w \in (DOMAIN @) \cup expanded |->
                         IF w \in DOMAIN @ THEN @[w] ELSE expand_word_compute(w)],
                 !.word_data =
                     [t \in DOMAIN @ |->
                         IF expanded = {} THEN @[t]
                         ELSE [@[t] EXCEPT !.semantic_neighbors = <<"expanded">>]]]

\* self._expand_cache[word_lower] = concepts, for the words that were expanded.
with_expanded(self, expanded) ==
    [self EXCEPT !.expansion_cache =
        [w \in (DOMAIN @) \cup expanded |->
            IF w \in DOMAIN @ THEN @[w] ELSE expand_word_compute(w)]]

(***************************************************************************)
(* The datasets of the model.  Entries is a pool of dataset rows; a        *)
(* dictionary is a sequence of distinct tokens of the pool, in the order   *)
(* the CSV lists them.                                                     *)
(***************************************************************************)
Entries ==
    ("strong" :> [english |-> <<"cake">>,
        semantic_frame |-> <<<<"cake">>>>,
        contextual_triggers |-> <<"cake">>,
        conceptual_anchors |-> <<"cake">>,
        ambiguity_resolvers |-> <<>>,
        usage_frequency_index |-> <<[context |-> "food", weight |-> <<10>>]>>,
        semantic_neighbors |-> <<>>])
    @@ ("mid" :> [english |-> <<>>,
        semantic_frame |-> <<<<"cake">>>>,
        contextual_triggers |-> <<"cake">>,
        conceptual_anchors |-> <<>>,
        ambiguity_resolvers |-> <<>>,
        usage_frequency_index |-> <<>>,
        semantic_neighbors |-> <<>>])
    @@ ("weak" :> [english |-> <<"cake">>,
        semantic_frame |-> <<>>,
        contextual_triggers |-> <<>>,
        conceptual_anchors |-> <<>>,
        ambiguity_resolvers |-> <<>>,
        usage_frequency_index |-> <<>>,
        semantic_neighbors |-> <<>>])
    @@ ("neg" :> [english |-> <<>>,
        semantic_frame |-> <<>>,
        contextual_triggers |-> <<>>,
        conceptual_anchors |-> <<>>,
        ambiguity_resolvers |-> <<>>,
        usage_frequency_index |-> <<[context |-> "food", weight |-> <<-20>>]>>,
        semantic_neighbors |-> <<>>])
    @@ ("blank" :> [english |-> <<>>,
        semantic_frame |-> <<>>,
        contextual_triggers |-> <<>>,
        conceptual_anchors |-> <<>>,
        ambiguity_resolvers |-> <<>>,
        usage_frequency_index |-> <<>>,
        semantic_neighbors |-> <<>>])
    @@ ("hound" :> [english |-> <<"dog">>,
        semantic_frame |-> <<<<"dog">>>>,
        contextual_triggers |-> <<"dog">>,
        conceptual_anchors |-> <<"dog">>,
        ambiguity_resolvers |-> <<>>,
        usage_frequency_index |-> <<>>,
        semantic_neighbors |-> <<>>])

\* word_data after load_dataset: the rows of the dictionary by token.
word_data_of(dictionary) == [t \in Range(dictionary) |-> Entries[t]]

MaxWords == 2

MaxDict == 2

\* The texts of at most n words.
TextsUpTo(n) == UNION { [1..k -> Words] : k \in 0..n }

\* The sequences of distinct tokens of at most n tokens.
DictionariesUpTo(n) ==
    { d \in UNION { [1..k -> DOMAIN Entries] : k \in 0..n } :
        \A i, j \in DOMAIN d : i # j => d[i] # d[j] }

NoGuidance == [expected_tokens |-> <<>>, expected_context |-> None]

Guidances ==
    [expected_tokens : {<<>>, <<"blank">>, <<"strong">>},
     expected_context : {None, Some("food"), Some("legal")}]

EmptyCache == <<>>

(***************************************************************************)
(* calculate_score as a state machine: a text, a token of the pool and     *)
(* the guidance are drawn, the call returns the total.                     *)
(***************************************************************************)
ScoreInit ==
    /\ pc = "calculate_score"
    /\ args \in [text : TextsUpTo(MaxWords), token : DOMAIN Entries,
                 guidance : Guidances]
    /\ ret = None
    /\ engine = None
    /\ call = None

CalculateScore ==
    /\ pc = "calculate_score"
    /\ ret' = Some(calculate_score(EmptyCache, Entries, args.text, args.token,
                                   args.guidance.expected_tokens,
                                   args.guidance.expected_context))
    /\ pc' = "scored"
    /\ UNCHANGED <<args, engine, call>>

ScoreNext == CalculateScore

SpecScore == ScoreInit /\ [][ScoreNext]_vars

(***************************************************************************)
(* find_best_matches as a state machine: a text, a dictionary, top_n and   *)
(* the guidance are drawn, the call returns the candidate list.            *)
(***************************************************************************)
TopNs == {1, 5}

MaxFindWords == 1

\* The guidances of the model and one whose expected_tokens names a token
\* twice.
FindGuidances ==
    Guidances \cup {[expected_tokens |-> <<"strong", "strong">>, expected_context |-> None]}

FindInit ==
    /\ pc = "find_best_matches"
    /\ args \in [text : TextsUpTo(MaxFindWords), dictionary : DictionariesUpTo(MaxDict),
                 top_n : TopNs, guidance : FindGuidances]
    /\ ret = None
    /\ engine = None
    /\ call = None

FindBestMatches ==
    /\ pc = "find_best_matches"
    /\ ret' = Some(find_best_matches(EmptyCache, word_data_of(args.dictionary),
                                     args.dictionary, args.text, args.top_n,
                                     args.guidance))
    /\ pc' = "found"
    /\ UNCHANGED <<args, engine, call>>

FindNext == FindBestMatches

SpecFind == FindInit /\ [][FindNext]_vars

(***************************************************************************)
(* process_chunk as a state machine: an engine with a dictionary and a     *)
(* stored guidance, and a text; one step for each iteration, one for the   *)
(* return.                                                                 *)
(***************************************************************************)
new_engine(dictionary, guidance) ==
    [word_data |-> word_data_of(dictionary), word_list |-> dictionary,
     expected_tokens |-> guidance.expected_tokens,
     expected_context |-> guidance.expected_context,
     expansion_cache |-> EmptyCache]

ChunkGuidances == { g \in Guidances : g.expected_context = None }

ChunkInit ==
    /\ pc = "iteration1"
    /\ args \in [text : TextsUpTo(MaxWords)]
    /\ ret = None
    /\ engine \in { new_engine(d, g) : d \in DictionariesUpTo(MaxDict),
                                        g \in ChunkGuidances }
    /\ call = chunk_start

next_pc(after, following) == IF after.returned # None THEN "return" ELSE following

Iteration1 ==
    /\ pc = "iteration1"
    /\ call' = run_iteration1(engine, args.text, call)
    /\ pc' = next_pc(call', "iteration2")
    /\ UNCHANGED <<args, ret, engine>>

Iteration2 ==
    /\ pc = "iteration2"
    /\ call' = run_iteration2(engine, args.text, call)
    /\ pc' = next_pc(call', "iteration3")
    /\ UNCHANGED <<args, ret, engine>>

Iteration3 ==
    /\ pc = "iteration3"
    /\ call' = run_iteration3(engine, args.text, call)
    /\ pc' = next_pc(call', "iteration4")
    /\ UNCHANGED <<args, ret, engine>>

Iteration4 ==
    /\ pc = "iteration4"
    /\ call' = run_iteration4(engine, args.text, call)
    /\ pc' = next_pc(call', "iteration5")
    /\ UNCHANGED <<args, ret, engine>>

Iteration5 ==
    /\ pc = "iteration5"
    /\ call' = run_iteration5(engine, args.text, call)
    /\ pc' = "return"
    /\ UNCHANGED <<args, ret, engine>>

\* Which words the call handed to expand_word depends on where the searches
\* stopped: any of the expandable words may have entered the cache.
ChunkReturn ==
    /\ pc = "return"
    /\ ret' = call.returned
    /\ \E expanded \in SUBSET expandable(engine, args.text) :
           engine' = with_expanded(engine, expanded)
    /\ pc' = "chunk returned"
    /\ UNCHANGED <<args, call>>

ChunkNext ==
    \/ Iteration1
    \/ Iteration2
    \/ Iteration3
    \/ Iteration4
    \/ Iteration5
    \/ ChunkReturn

SpecChunk == ChunkInit /\ [][ChunkNext]_vars

(***************************************************************************)
(* process_text as a state machine: one step per semantic phrase, one per  *)
(* round of the greedy loop, the safety check, the return.  The long texts *)
(* are a core padded with "the" to one word more than the length up to     *)
(* which semantic chunking is skipped.                                     *)
(***************************************************************************)
MaxCore == 3

TextWords == {"cake", "dog", "use", "the"}

ShortTexts == UNION { [1..k -> TextWords] : k \in 0..MaxCore }

LongTexts ==
    { core \o [k \in 1..(semantic_chunking_above + 1 - MaxCore) |-> "the"] :
        core \in [1..MaxCore -> TextWords] }

\* Texts longer than the pre-pass limit that repeat one word throughout.
RepeatedTexts ==
    { [k \in 1..(semantic_chunking_above + 1) |-> w] : w \in {"cake", "dog"} }

TextGuidances ==
    {NoGuidance, [expected_tokens |-> <<"strong">>, expected_context |-> Some("food")]}

TextInit ==
    /\ pc = "process_text"
    /\ args \in [text : ShortTexts \cup LongTexts \cup RepeatedTexts, guidance : TextGuidances]
    /\ ret = None
    /\ engine \in { new_engine(d, NoGuidance) : d \in DictionariesUpTo(1) }
    /\ call = None

ProcessText ==
    /\ pc = "process_text"
    /\ engine' = with_guidance(engine, args.guidance)
    /\ call' = text_start(args.text)
    /\ pc' = "semantic phrases"
    /\ UNCHANGED <<args, ret>>

SemanticPhrase ==
    /\ pc = "semantic phrases"
    /\ IF call.phrase_no <= Len(call.semantic_phrases)
       THEN call' = pre_pass_step(engine, call) /\ pc' = pc
       ELSE call' = call /\ pc' = "greedy matching"
    /\ UNCHANGED <<args, ret, engine>>

GreedyMatch ==
    /\ pc = "greedy matching"
    /\ IF call.i <= Len(call.original_words)
       THEN call' = greedy_step(engine, call) /\ pc' = pc
       ELSE call' = call /\ pc' = "safety check"
    /\ UNCHANGED <<args, ret, engine>>

SafetyCheck ==
    /\ pc = "safety check"
    /\ call' = safety_check(engine, call, 1)
    /\ pc' = "return text"
    /\ UNCHANGED <<args, ret, engine>>

TextReturn ==
    /\ pc = "return text"
    /\ ret' = Some(text_result(args.text, call))
    /\ \E expanded \in SUBSET expandable(engine, args.text) :
           engine' = with_expanded(engine, expanded)
    /\ pc' = "text returned"
    /\ UNCHANGED <<args, call>>

TextNext ==
    \/ ProcessText
    \/ SemanticPhrase
    \/ GreedyMatch
    \/ SafetyCheck
    \/ TextReturn

SpecText == TextInit /\ [][TextNext]_vars

(***************************************************************************)
(* One engine serving a sequence of calls, each call one step:             *)
(* process_text with a text and guidance, or process_chunk with a text.    *)
(* call.log records the calls made and what each returned.                 *)
(***************************************************************************)
MaxCalls == 3

EngineTexts == {<<"cake">>, <<"the", "cake", "dog">>}

EngineDictionaries == {<<"strong">>, <<"weak">>, <<"blank", "hound">>}

EngineGuidances ==
    {NoGuidance, [expected_tokens |-> <<"weak">>, expected_context |-> Some("food")]}

EngineInit ==
    /\ pc = "idle"
    /\ args = None
    /\ ret = None
    /\ engine \in { new_engine(d, NoGuidance) : d \in EngineDictionaries }
    /\ call = [log |-> <<>>]

\* An entry of the log: the call, what it returned, and the words the
\* expansion cache held when it was made.
logged(op, arguments, result) ==
    [call EXCEPT !.log = Append(@, [op |-> op, args |-> arguments, result |-> result,
                                    cached |-> DOMAIN engine.expansion_cache])]

CallProcessText ==
    /\ Len(call.log) < MaxCalls
    /\ \E a \in [text : EngineTexts, guidance : EngineGuidances] :
          /\ args' = a
          /\ ret' = Some(process_text(engine, a.text, a.guidance))
          /\ \E expanded \in SUBSET expandable(engine, a.text) :
                engine' = with_expanded(with_guidance(engine, a.guidance), expanded)
    /\ call' = logged("process_text", args', ret'[1])
    /\ pc' = "text returned"

CallProcessChunk ==
    /\ Len(call.log) < MaxCalls
    /\ \E a \in [text : EngineTexts] :
          /\ args' = a
          /\ ret' = Some(process_chunk(engine, a.text))
          /\ \E expanded \in SUBSET expandable(engine, a.text) :
                engine' = with_expanded(engine, expanded)
    /\ call' = logged("process_chunk", args', ret'[1])
    /\ pc' = "chunk returned"

EngineNext ==
    \/ CallProcessText
    \/ CallProcessChunk

SpecEngine == EngineInit /\ [][EngineNext]_vars

(***************************************************************************)
(* One engine serving calls of every kind, each call one step:             *)
(* calculate_score and find_best_matches of its scoring system,            *)
(* make_decision of its decision engine, process_chunk and process_text.   *)
(***************************************************************************)
CallScores == {Pct(50), Pct(90)}

CallsInit ==
    /\ pc = "idle"
    /\ args = None
    /\ ret = None
    /\ engine \in { new_engine(d, NoGuidance) : d \in EngineDictionaries }
    /\ call = None

ScoringCall ==
    /\ \E a \in [text : EngineTexts, token : DOMAIN engine.word_data,
                 guidance : EngineGuidances] :
          /\ args' = a
          /\ ret' = Some(calculate_score(engine.expansion_cache, engine.word_data, a.text,
                                         a.token, a.guidance.expected_tokens,
                                         a.guidance.expected_context))
          /\ \E expanded \in SUBSET expandable(engine, a.text) :
                engine' = with_expanded(engine, expanded)
    /\ pc' = "scored"
    /\ UNCHANGED call

SearchCall ==
    /\ \E a \in [text : EngineTexts, top_n : TopNs, guidance : EngineGuidances] :
          /\ args' = a
          /\ ret' = Some(find_best_matches(engine.expansion_cache, engine.word_data,
                                           engine.word_list, a.text, a.top_n, a.guidance))
          /\ \E expanded \in SUBSET expandable(engine, a.text) :
                engine' = with_expanded(engine, expanded)
    /\ pc' = "found"
    /\ UNCHANGED call

DecisionCall ==
    /\ \E a \in [score : CallScores, previous_score : {None, Some(Pct(90))},
                 iteration : {1, max_iterations}] :
          /\ args' = a
          /\ ret' = Some(make_decision(a.score, a.previous_score, a.iteration))
    /\ pc' = "decided"
    /\ UNCHANGED <<engine, call>>

ChunkCall ==
    /\ \E a \in [text : EngineTexts] :
          /\ args' = a
          /\ ret' = Some(process_chunk(engine, a.text))
          /\ \E expanded \in SUBSET expandable(engine, a.text) :
                engine' = with_expanded(engine, expanded)
    /\ pc' = "chunk returned"
    /\ UNCHANGED call

TextCall ==
    /\ \E a \in [text : EngineTexts, guidance : EngineGuidances] :
          /\ args' = a
          /\ ret' = Some(process_text(engine, a.text, a.guidance))
          /\ \E expanded \in SUBSET expandable(engine, a.text) :
                engine' = with_expanded(with_guidance(engine, a.guidance), expanded)
    /\ pc' = "text returned"
    /\ UNCHANGED call

CallsNext ==
    \/ ScoringCall
    \/ SearchCall
    \/ DecisionCall
    \/ ChunkCall
    \/ TextCall

SpecCalls == CallsInit /\ [][CallsNext]_vars

(***************************************************************************)
(* Construction: RecursiveEngine.__init__ and load_dataset.  A file is     *)
(* unreadable (missing, a directory, not decodable) or a sequence of rows; *)
(* a row is its sanskrit and devnari columns, its other columns being      *)
(* those of the pool entry of that name, blank for other names.  The       *)
(* space symbols are named, not written: "MIDDLE DOT", "ANUSVARA".         *)
(***************************************************************************)
MaxRows == 2

row(sanskrit, devnari) == [sanskrit |-> sanskrit, devnari |-> devnari]

Rows ==
    {row("strong", ""), row("weak", ""), row("", ""), row("space-bar", ""),
     row("space-bar", "ANUSVARA"), row("Space-Bar", "MIDDLE DOT")}

Unreadable == [readable |-> FALSE, rows |-> <<>>]

Files ==
    {Unreadable} \cup { [readable |-> TRUE, rows |-> rows] :
                          rows \in UNION { [1..k -> Rows] : k \in 0..MaxRows } }

\* sanskrit.lower() == 'space-bar'
is_space_bar(sanskrit) == sanskrit \in {"space-bar", "Space-Bar", "SPACE-BAR"}

row_entry(sanskrit) == IF sanskrit \in DOMAIN Entries THEN Entries[sanskrit] ELSE BlankEntry

\* The state before the first row: no entries, the default space symbol.
load_start == [word_data |-> <<>>, word_list |-> <<>>, space_symbol |-> "MIDDLE DOT"]

\* One round of "for row in reader".
load_row(loaded, r) ==
    [word_data |->
        IF r.sanskrit = "" THEN loaded.word_data
        ELSE [t \in (DOMAIN loaded.word_data) \cup {r.sanskrit} |->
                 IF t = r.sanskrit THEN row_entry(t) ELSE loaded.word_data[t]],
     word_list |->
        IF r.sanskrit = "" \/ r.sanskrit \in DOMAIN loaded.word_data
        THEN loaded.word_list ELSE Append(loaded.word_list, r.sanskrit),
     space_symbol |->
        IF is_space_bar(r.sanskrit) /\ r.devnari # ""
        THEN r.devnari ELSE loaded.space_symbol]

RECURSIVE load_rows(_, _, _)
load_rows(rows, k, loaded) ==
    IF k > Len(rows) THEN loaded
    ELSE load_rows(rows, k + 1, load_row(loaded, rows[k]))

\* The except branch: the error is printed, the dictionary left empty.
load_failed == [word_data |-> <<>>, word_list |-> <<>>, space_symbol |-> "ANUSVARA"]

load_dataset(file) ==
    IF file.readable THEN load_rows(file.rows, 1, load_start) ELSE load_failed

\* RecursiveEngine(csv_path): __init__ raises nothing of its own, and
\* load_dataset catches every exception.
construct(file) ==
    [word_data |-> load_dataset(file).word_data,
     word_list |-> load_dataset(file).word_list,
     space_symbol |-> load_dataset(file).space_symbol,
     expected_tokens |-> None, expected_context |-> None,
     expansion_cache |-> EmptyCache]

(***************************************************************************)
(* The surface string and the decoder's split of it                        *)
(* (src/est/decoder.py).  A string is a sequence of units: a word or a     *)
(* token (which holds no space and no space symbol), a space " ", or a     *)
(* space symbol.                                                           *)
(***************************************************************************)
\* ' '.join(...) of the tokens of one part.
RECURSIVE part_string(_)
part_string(part) ==
    IF Len(part) <= 1 THEN part
    ELSE <<part[1], " ">> \o part_string(Tail(part))

\* word_separator.join(output_parts)
RECURSIVE joined(_, _)
joined(word_separator, parts) ==
    IF parts = <<>> THEN <<>>
    ELSE IF Len(parts) = 1 THEN part_string(parts[1])
    ELSE part_string(parts[1]) \o word_separator \o joined(word_separator, Tail(parts))

\* word_separator = self.space_symbol + self.space_symbol
sanskrit_output_of(self, parts) ==
    joined(<<self.space_symbol, self.space_symbol>>, parts)

\* SanskritDecoder._load_dataset: the default of the decoder, or the devnari
\* of the last space-bar row that has one.
RECURSIVE decoder_symbol(_, _, _)
decoder_symbol(rows, k, symbol) ==
    IF k > Len(rows) THEN symbol
    ELSE decoder_symbol(rows, k + 1,
             IF is_space_bar(rows[k].sanskrit) /\ rows[k].devnari # ""
             THEN rows[k].devnari ELSE symbol)

starts_at(string, k, word_separator) ==
    /\ k + Len(word_separator) - 1 <= Len(string)
    /\ SubSeq(string, k, k + Len(word_separator) - 1) = word_separator

\* string.split(word_separator), scanning from position k with the piece
\* begun at position start.
RECURSIVE split_from(_, _, _, _)
split_from(string, word_separator, start, k) ==
    IF k > Len(string) THEN <<SubSeq(string, start, Len(string))>>
    ELSE IF starts_at(string, k, word_separator)
    THEN <<SubSeq(string, start, k - 1)>>
         \o split_from(string, word_separator, k + Len(word_separator),
                       k + Len(word_separator))
    ELSE split_from(string, word_separator, start, k + 1)

\* w.strip()
RECURSIVE strip(_)
strip(w) ==
    IF w = <<>> THEN w
    ELSE IF Head(w) = " " THEN strip(Tail(w))
    ELSE IF w[Len(w)] = " " THEN strip(SubSeq(w, 1, Len(w) - 1))
    ELSE w

\* words = [w.strip() for w in sanskrit_text.split(word_separator) if w.strip()]
decoder_words(space_symbol, sanskrit_text) ==
    IF sanskrit_text = <<>> THEN <<>>
    ELSE SelectSeq([k \in DOMAIN split_from(sanskrit_text, <<space_symbol, space_symbol>>, 1, 1) |->
                       strip(split_from(sanskrit_text, <<space_symbol, space_symbol>>, 1, 1)[k])],
                   LAMBDA w : w # <<>>)

(***************************************************************************)
(* A dictionary file from construction to decoding: the engine is          *)
(* constructed on the file, process_text encodes a text, and a decoder     *)
(* constructed on the same file splits the output into words.              *)
(***************************************************************************)
DatasetInit ==
    /\ pc = "construct"
    /\ args \in [file : Files, text : EngineTexts]
    /\ ret = None
    /\ engine = None
    /\ call = None

Construct ==
    /\ pc = "construct"
    /\ engine' = construct(args.file)
    /\ pc' = "constructed"
    /\ UNCHANGED <<args, ret, call>>

EncodeText ==
    /\ pc = "constructed"
    /\ ret' = Some([process_text(engine, args.text, NoGuidance)
                       EXCEPT !.sanskrit_output = sanskrit_output_of(engine, @)])
    /\ \E expanded \in SUBSET expandable(engine, args.text) :
           engine' = with_expanded(with_guidance(engine, NoGuidance), expanded)
    /\ pc' = "text returned"
    /\ UNCHANGED <<args, call>>

\* SanskritDecoder(csv_path) opens the file outside any try: it raises on an
\* unreadable file.
DecoderSplit ==
    /\ pc = "text returned"
    /\ IF args.file.readable
       THEN /\ call' = [space_symbol |-> decoder_symbol(args.file.rows, 1, "ANUSVARA"),
                        words |-> decoder_words(decoder_symbol(args.file.rows, 1, "ANUSVARA"),
                                                ret[1].sanskrit_output)]
            /\ pc' = "decoder split"
       ELSE /\ call' = call
            /\ pc' = "decoder raised"
    /\ UNCHANGED <<args, ret, engine>>

DatasetNext ==
    \/ Construct
    \/ EncodeText
    \/ DecoderSplit

SpecDataset == DatasetInit /\ [][DatasetNext]_vars

(***************************************************************************)
(* One SemanticExpander through any sequence of expand_word, expand_text   *)
(* and expand_with_context.  engine.expand_cache is self._expand_cache;    *)
(* call.first keeps, for each word handed to expand_word, what the first   *)
(* call for it returned, and call.cached whether the last expand_word was  *)
(* served from the cache.                                                  *)
(***************************************************************************)
ExpanderTexts == {<<>>, <<"cake">>, <<"the", "food">>, <<"debt", "dog">>, <<"Cake.", "legal">>}

ExpanderInit ==
    /\ pc = "idle"
    /\ args = None
    /\ ret = None
    /\ engine = [expand_cache |-> EmptyCache]
    /\ call = [first |-> <<>>, cached |-> FALSE]

ExpandWord ==
    \E word \in ExpanderWords :
        /\ pc' = "word expanded"
        /\ args' = [word |-> word]
        /\ ret' = Some(expand_word(engine.expand_cache, word))
        /\ engine' = [engine EXCEPT !.expand_cache = cache_store(@, word_lower(word))]
        /\ call' = [first |-> IF word \in DOMAIN call.first THEN call.first
                              ELSE [w \in (DOMAIN call.first) \cup {word} |->
                                       IF w # word THEN call.first[w]
                                       ELSE expand_word(engine.expand_cache, word)],
                    cached |-> word_lower(word) \in DOMAIN engine.expand_cache]

ExpandText ==
    \E text \in ExpanderTexts :
        /\ pc' = "text expanded"
        /\ args' = [text |-> text]
        /\ ret' = Some(expand_text(engine.expand_cache, text))
        /\ engine' = [engine EXCEPT !.expand_cache = cache_store_all(@, text_words(text))]
        /\ UNCHANGED call

ExpandWithContext ==
    \E text \in ExpanderTexts :
        /\ pc' = "context expanded"
        /\ args' = [text |-> text]
        /\ ret' = Some(expand_with_context(engine.expand_cache, text))
        /\ engine' = [engine EXCEPT !.expand_cache =
                          cache_store_all(@, text_words(text) \cup group_words_of(text))]
        /\ UNCHANGED call

ExpanderNext ==
    \/ ExpandWord
    \/ ExpandText
    \/ ExpandWithContext

SpecExpander == ExpanderInit /\ [][ExpanderNext]_vars

(***************************************************************************)
(* ContextDetector.context_aware_filter on its own: a text, a list of      *)
(* candidates in any order, and the dictionary.                            *)
(***************************************************************************)
MaxCandidates == 3

FilterTexts == {<<"cake">>, <<"dog">>}

FilterCandidates ==
    UNION { [1..n -> [token : {"strong", "weak", "blank", "neg"},
                      score : {Pct(50), Pct(60), ONE}]] : n \in 0..MaxCandidates }

FilterInit ==
    /\ pc = "context_aware_filter"
    /\ args \in [text : FilterTexts, sanskrit_candidates : FilterCandidates]
    /\ ret = None
    /\ engine = None
    /\ call = None

ContextAwareFilter ==
    /\ pc = "context_aware_filter"
    /\ ret' = Some(context_aware_filter(args.text, args.sanskrit_candidates, Entries))
    /\ pc' = "filtered"
    /\ UNCHANGED <<args, engine, call>>

FilterNext == ContextAwareFilter

SpecFilter == FilterInit /\ [][FilterNext]_vars

(***************************************************************************)
(* Claims                                                                  *)
(***************************************************************************)

\* C3: whenever a previous score exists and (previous - score) / previous
\* exceeds 0.40, make_decision returns REJECT, at every iteration and for
\* every score.
C3_DegradationRejects ==
    (/\ pc = "decided"
     /\ args.previous_score # None
     /\ args.previous_score[1] > 0
     /\ 100 * (args.previous_score[1] - args.score) > 40 * args.previous_score[1])
    => ret = Some(REJECT)

\* C3 witness: a medium score (0.65) after a previous 1.1, a drop of more
\* than 40%, has been decided.
C3_Witness ==
    /\ pc = "decided"
    /\ args.previous_score = Some(Pct(110))
    /\ args.score = Pct(65)
    /\ args.iteration = 2

\* C4: a score of at least 0.80 whose previous score is absent, or differs
\* from it by at most 40% of the previous score, is ACCEPTed at every
\* iteration.
C4_HighScoreAccepted ==
    (/\ pc = "decided"
     /\ args.score >= Pct(80)
     /\ \/ args.previous_score = None
        \/ /\ args.previous_score # None
           /\ args.previous_score[1] > 0
           /\ 100 * Abs(args.score - args.previous_score[1])
                  <= 40 * args.previous_score[1])
    => ret = Some(ACCEPT)

\* C4 witness: make_decision(0.925, None, 1) has returned.
C4_Witness ==
    /\ pc = "decided"
    /\ args.score = (37 * ONE) \div 40
    /\ args.previous_score = None
    /\ args.iteration = 1

\* C7: calculate_score returns a total in [0, 1] for every text, token,
\* entry content and guidance, and exactly 0 for the entry whose every field
\* is blank.
C7_ScoreInUnitInterval ==
    pc = "scored" =>
        /\ ret[1] >= 0
        /\ ret[1] <= ONE
        /\ (Entries[args.token] = BlankEntry => ret[1] = 0)

\* What C8 compares with: every entry of the dictionary scored, those above
\* 0 kept in dictionary order, sorted descending, filtered and cut to top_n.
RECURSIVE exhaustive_matches(_, _, _, _)
exhaustive_matches(word_data, word_list, english_chunk, guidance) ==
    IF word_list = <<>> THEN <<>>
    ELSE LET score == calculate_score(EmptyCache, word_data, english_chunk,
                                      Head(word_list), guidance.expected_tokens,
                                      guidance.expected_context)
             rest == exhaustive_matches(word_data, Tail(word_list), english_chunk,
                                        guidance)
         IN  IF score > 0
             THEN <<[token |-> Head(word_list), score |-> score]>> \o rest
             ELSE rest

\* C8: without guidance, find_best_matches returns the tokens, scores and
\* order that exhaustive scoring, sorting, filtering and truncating give.
C8_EarlyExitIsExhaustive ==
    (pc = "found" /\ args.guidance = NoGuidance) =>
        ret[1] = ranked(word_data_of(args.dictionary), args.text,
                        exhaustive_matches(word_data_of(args.dictionary),
                                           args.dictionary, args.text, NoGuidance),
                        args.top_n)

tokens_of(matches) == { matches[i].token : i \in DOMAIN matches }

\* C9: the entries find_best_matches admits are the same with and without
\* guidance.  With top_n = 5 and fewer than three entries no early exit and
\* no cut applies, so the returned list holds every admitted entry.
C9_GuidanceKeepsEligibility ==
    (pc = "found" /\ args.top_n = 5 /\ Len(args.dictionary) < 3) =>
        tokens_of(ret[1])
          = tokens_of(find_best_matches(EmptyCache, word_data_of(args.dictionary),
                                        args.dictionary, args.text, args.top_n,
                                        NoGuidance))

same_result(a, b) ==
    /\ a.iteration = b.iteration
    /\ a.score = b.score
    /\ a.decision = b.decision
    /\ a.sanskrit = b.sanskrit

\* C5: when an iteration of the cascade decided ACCEPT, process_chunk returns
\* that iteration's result; when none did, it returns a result of the
\* maximum score.
C5_AcceptIsReturned ==
    pc = "chunk returned" =>
        /\ \A i \in DOMAIN call.results :
              call.results[i].decision = ACCEPT => same_result(ret[1], call.results[i])
        /\ (\A i \in DOMAIN call.results : call.results[i].decision # ACCEPT)
              => /\ \E i \in DOMAIN call.results : same_result(ret[1], call.results[i])
                 /\ \A i \in DOMAIN call.results : call.results[i].score <= ret[1].score

\* C6: the previous_score an iteration k >= 2 hands to make_decision is the
\* score of the iteration that ran immediately before it.
C6_PreviousIsPrecedingScore ==
    pc \in {"iteration2", "iteration3", "iteration4", "iteration5", "return",
            "chunk returned"} =>
        \A j \in DOMAIN call.results :
            (j >= 2 /\ call.results[j].decided)
                => call.results[j].previous_score = Some(call.results[j - 1].score)

\* C1: when process_text returns, every position of the input is stood for
\* exactly once by the output parts: by one place of one token, or by the
\* word emitted verbatim; none is dropped and none is consumed twice.
C1_FullCoverage ==
    pc = "text returned" =>
        \A idx \in DOMAIN args.text :
            Cardinality({ place \in { <<k, j>> \in (DOMAIN ret[1].output_parts) \X (DOMAIN args.text) :
                                        j \in DOMAIN ret[1].output_parts[k].covers } :
                            ret[1].output_parts[place[1]].covers[place[2]] = idx }) = 1

\* C2: in the output of process_text a part that stands for earlier words of
\* the input comes before a part that stands for later words.
C2_OriginalOrder ==
    pc = "text returned" =>
        \A k, l \in DOMAIN ret[1].output_parts :
            k < l => \A a \in Range(ret[1].output_parts[k].covers),
                        b \in Range(ret[1].output_parts[l].covers) : a < b

\* C10: on one engine, two calls of process_text with the same text and the
\* same guidance return the same output string, confidence and matched count,
\* whatever calls were made before or between them.
C10_IdempotentRerun ==
    \A i, j \in DOMAIN call.log :
        (/\ call.log[i].op = "process_text"
         /\ call.log[j].op = "process_text"
         /\ call.log[i].args = call.log[j].args)
            => /\ call.log[i].result.sanskrit_output = call.log[j].result.sanskrit_output
               /\ call.log[i].result.confidence = call.log[j].result.confidence
               /\ call.log[i].result.matched_count = call.log[j].result.matched_count

\* Two calls of process_text with the same arguments that matched something,
\* the first on an empty expansion cache and the second on a filled one, with
\* a call under other guidance, and another confidence, between them.
C10_Witness ==
    /\ Len(call.log) = 3
    /\ call.log[1].op = "process_text"
    /\ call.log[3].op = "process_text"
    /\ call.log[1].args = call.log[3].args
    /\ call.log[2].op = "process_text"
    /\ call.log[2].args.guidance # call.log[1].args.guidance
    /\ call.log[2].result.confidence # call.log[1].result.confidence
    /\ call.log[3].result.matched_count > 0
    /\ call.log[1].cached = {}
    /\ call.log[3].cached # {}

\* C11: what process_chunk returns for a text does not depend on the
\* arguments of the process_text calls made earlier on the engine: it is what
\* an engine of the same dictionary on which process_text was never called
\* returns for the text.
C11_ChunkIgnoresEarlierGuidance ==
    \A i \in DOMAIN call.log :
        call.log[i].op = "process_chunk"
            => call.log[i].result
                 = process_chunk(new_engine(engine.word_list, NoGuidance), call.log[i].args.text)

\* C12: no call of calculate_score, find_best_matches, make_decision,
\* process_chunk or process_text adds, removes or changes an entry of the
\* dictionary or a field of one.
C12_DictionaryReadOnly ==
    [][/\ engine'.word_data = engine.word_data
       /\ engine'.word_list = engine.word_list]_vars

\* A call of process_text has matched a token under guidance on an engine
\* whose expansion cache is filled: the engine's own state has changed.
C12_Witness ==
    /\ pc = "text returned"
    /\ ret[1].matched_count > 0
    /\ engine.expected_tokens # None
    /\ DOMAIN engine.expansion_cache # {}
    /\ engine.word_data = word_data_of(engine.word_list)

\* C13: the constructor hands back no engine with an empty dictionary: a
\* missing or unreadable file, or a file with no usable row, is a failure of
\* the construction.
C13_NoEngineOnEmptyDictionary ==
    pc = "constructed" => DOMAIN engine.word_data # {}

\* C14: splitting the output string of process_text on the doubled space
\* symbol, as the decoder does, gives back the output parts that process_text
\* assembled: as many, in the same order, with the same contents.
C14_SeparatorRoundTrip ==
    pc = "decoder split" =>
        call.words = [k \in DOMAIN ret[1].output_parts |->
                         part_string(ret[1].output_parts[k].part)]

\* C15: on one expander, whatever expand_word, expand_text and
\* expand_with_context calls came before, expand_word(w) returns the set
\* that its first call for w returned and the set that an expander with an
\* empty cache computes for w; every set held by the cache is the set
\* computed for its word.
C15_CacheNeverStale ==
    /\ \A w \in DOMAIN engine.expand_cache :
           engine.expand_cache[w] = expand_word(EmptyCache, w)
    /\ pc = "word expanded"
           => /\ ret[1] = call.first[args.word]
              /\ ret[1] = expand_word(EmptyCache, args.word)

\* An expand_word("Cake") served from a cache that an earlier call filled,
\* returning the expansion through the reverse index.
C15_Witness ==
    /\ pc = "word expanded"
    /\ args.word = "Cake"
    /\ call.cached
    /\ "food" \in ret[1]
    /\ DOMAIN engine.expand_cache = {"cake", "food", "debt", "dog"}

\* C16 as amended: the set returned by expand_word(w) contains w lower-cased
\* and trimmed, which is w itself when w is lower-case and trimmed already.
C16_ContainsLoweredWord ==
    pc = "word expanded" => word_lower(args.word) \in ret[1]

\* expand_word(" cake ") returning a set with "cake" in it and more.
C16_Witness ==
    /\ pc = "word expanded"
    /\ args.word = " cake "
    /\ "cake" \in ret[1]
    /\ Cardinality(ret[1]) > 1

\* C16 as stated: the set returned by expand_word(w) contains w itself.
C16_ContainsWordItself ==
    pc = "word expanded" => args.word \in ret[1]

\* C17: when process_chunk reaches iteration 5 and the search of the
\* dictionary yields at least one candidate for the chunk, the result of
\* iteration 5 carries the token of the best candidate, whatever its score.
C17_FinalResolutionForceAccepts ==
    (pc = "return" /\ Len(call.results) = max_iterations)
        => LET matches == best_matches(engine, args.text, 5)
           IN  matches # <<>>
                   => call.results[max_iterations].sanskrit
                        = Some(<<matches[1].token>>)

\* C18: a score in [0.60, 0.80) that has not dropped by more than 40% of an
\* existing previous score gets CONTINUE at iterations 1..4; at iteration 5
\* it gets ACCEPT when there is no previous score or the score differs from
\* it by at most 40% of it, and REJECT otherwise.
C18_MediumBand ==
    (/\ pc = "decided"
     /\ args.score >= Pct(60)
     /\ args.score < Pct(80)
     /\ \/ args.previous_score = None
        \/ args.previous_score[1] <= 0
        \/ 100 * (args.previous_score[1] - args.score) <= 40 * args.previous_score[1])
    => ret = Some(IF args.iteration < 5 THEN CONTINUE
                  ELSE IF \/ args.previous_score = None
                          \/ /\ args.previous_score[1] > 0
                             /\ 100 * Abs(args.score - args.previous_score[1])
                                    <= 40 * args.previous_score[1]
                       THEN ACCEPT
                       ELSE REJECT)

\* C18 witness: make_decision(0.65, 0.40, 5), a rise of more than 40% at
\* the final iteration, has returned REJECT.
C18_Witness ==
    /\ pc = "decided"
    /\ args.score = Pct(65)
    /\ args.previous_score = Some(Pct(40))
    /\ args.iteration = 5
    /\ ret = Some(REJECT)

\* C19: a score below 0.60 that has not dropped by more than 40% of an
\* existing previous score gets CONTINUE exactly when the iteration is below
\* 3 and there is no previous score or the score differs from it by at most
\* 40% of it; it gets REJECT in every other case.
C19_LowBand ==
    (/\ pc = "decided"
     /\ args.score < Pct(60)
     /\ \/ args.previous_score = None
        \/ args.previous_score[1] <= 0
        \/ 100 * (args.previous_score[1] - args.score) <= 40 * args.previous_score[1])
    => ret = Some(IF /\ args.iteration < 3
                     /\ \/ args.previous_score = None
                        \/ /\ args.previous_score[1] > 0
                           /\ 100 * Abs(args.score - args.previous_score[1])
                                  <= 40 * args.previous_score[1]
                  THEN CONTINUE
                  ELSE REJECT)

\* C19 witness: make_decision(0.50, 0.50, 2) has returned CONTINUE.
C19_Witness ==
    /\ pc = "decided"
    /\ args.score = Pct(50)
    /\ args.previous_score = Some(Pct(50))
    /\ args.iteration = 2
    /\ ret = Some(CONTINUE)

\* C20: a score of at least 0.80 with a previous score from which it has
\* not dropped by more than 40% but differs by more than 40% of it (every
\* score does after a previous score of 0) gets CONTINUE at iterations 1..4
\* and ACCEPT at iteration 5, never REJECT.
C20_HighScoreContextCheck ==
    (/\ pc = "decided"
     /\ args.score >= Pct(80)
     /\ args.previous_score # None
     /\ \/ args.previous_score[1] = 0
        \/ /\ args.previous_score[1] > 0
           /\ 100 * (args.previous_score[1] - args.score) <= 40 * args.previous_score[1]
           /\ 100 * Abs(args.score - args.previous_score[1])
                  > 40 * args.previous_score[1])
    => ret = Some(IF args.iteration < 5 THEN CONTINUE ELSE ACCEPT)

\* C20 witness: make_decision(0.90, 0.0, 5) has returned ACCEPT.
C20_Witness ==
    /\ pc = "decided"
    /\ args.score = Pct(90)
    /\ args.previous_score = Some(0)
    /\ args.iteration = 5
    /\ ret = Some(ACCEPT)

\* C21: when process_text returns, every stop word of the input stands in
\* the output verbatim exactly once, as a part of its own, and no token
\* stands for its position.
C21_StopWordsPassThrough ==
    pc = "text returned" =>
        \A idx \in DOMAIN args.text :
            is_stop_word(args.text[idx]) =>
                /\ Cardinality({ k \in DOMAIN ret[1].output_parts :
                                   /\ ret[1].output_parts[k].kind = "word"
                                   /\ ret[1].output_parts[k].covers = <<idx>>
                                   /\ ret[1].output_parts[k].part = <<args.text[idx]>> }) = 1
                /\ \A k \in DOMAIN ret[1].output_parts :
                       ret[1].output_parts[k].kind = "token"
                           => idx \notin Range(ret[1].output_parts[k].covers)

\* C22: every candidate that find_best_matches returns has a score of at
\* least 0 and at most 1, with or without guidance.
C22_MatchScoreInUnitInterval ==
    pc = "found" =>
        \A i \in DOMAIN ret[1] : ret[1][i].score >= 0 /\ ret[1][i].score <= ONE

\* score x (0.7 + priority x 0.3) for each candidate, in the original order.
boosted(text, candidates) ==
    [i \in DOMAIN candidates |->
        [token |-> candidates[i].token,
         score |-> (candidates[i].score
                      * (70 + 3 * get_context_priority(text, Entries[candidates[i].token])))
                   \div 100]]

\* result holds the candidates of list, each once, by descending score, and
\* those of equal score in the order they have in list.
stably_sorted(result, list) ==
    /\ Len(result) = Len(list)
    /\ \E order \in [DOMAIN list -> DOMAIN list] :
           /\ \A i, j \in DOMAIN list : i # j => order[i] # order[j]
           /\ \A i \in DOMAIN list : result[i] = list[order[i]]
           /\ \A i, j \in DOMAIN list :
                  i < j => \/ result[i].score > result[j].score
                           \/ /\ result[i].score = result[j].score
                              /\ order[i] < order[j]

\* C23 as amended: for a text with a detected primary context,
\* context_aware_filter returns the candidates re-scored as
\* score x (0.7 + priority x 0.3), by descending boosted score, those of
\* equal boosted score in their original order; for a text without one it
\* returns the candidates as they were handed in.
C23_FilterRescoresInContext ==
    pc = "filtered" =>
        IF detect_context(args.text).primary_context = None
        THEN ret[1] = args.sanskrit_candidates
        ELSE stably_sorted(ret[1], boosted(args.text, args.sanskrit_candidates))

\* For 'cake', two candidates of equal boosted score behind one whose
\* boosted score is lower: the two have moved to the front in their
\* original order.
C23_Witness ==
    /\ pc = "filtered"
    /\ args.text = <<"cake">>
    /\ args.sanskrit_candidates = <<[token |-> "neg", score |-> ONE],
                                    [token |-> "weak", score |-> Pct(50)],
                                    [token |-> "blank", score |-> Pct(50)]>>
    /\ ret[1] = <<[token |-> "weak", score |-> Pct(50) - (21 * Pct(50)) \div 100],
                  [token |-> "blank", score |-> Pct(50) - (21 * Pct(50)) \div 100],
                  [token |-> "neg", score |-> ONE \div 10]>>

\* C23 as stated: context_aware_filter returns, for every text, the
\* candidates re-scored as score x (0.7 + priority x 0.3), by descending
\* boosted score, those of equal boosted score in their original order.
C23_FilterRescoresAlways ==
    pc = "filtered" => stably_sorted(ret[1], boosted(args.text, args.sanskrit_candidates))

\* C24: in process_chunk an iteration after the first has run only when the
\* iteration before it has run and decided CONTINUE: ACCEPT and REJECT end
\* the cascade.
C24_CascadeProtocol ==
    \A k \in DOMAIN call.results :
        call.results[k].iteration > 1 =>
            /\ k > 1
            /\ call.results[k - 1].iteration = call.results[k].iteration - 1
            /\ call.results[k - 1].decision = CONTINUE

\* C30: in every result of process_text the count of matched words is at
\* most the count of the words of the input.
C30_MatchedWithinTotal ==
    pc = "text returned" => ret[1].matched_count <= ret[1].total_words

\* C25: whatever the outcome of process_chunk, an early ACCEPT included,
\* the returned result carries the list of the results of all iterations
\* tried for the chunk, in increasing order of iteration.
C25_TraceRetained ==
    pc = "chunk returned" =>
        /\ ret[1].all_iterations = Some(call.results)
        /\ \A k, l \in DOMAIN call.results :
               k < l => call.results[k].iteration < call.results[l].iteration

\* C27: the result that process_chunk returns carries the decision ACCEPT
\* or REJECT, never CONTINUE.
C27_ReturnedDecisionIsTerminal ==
    pc = "chunk returned" => ret[1].decision \in {ACCEPT, REJECT}

\* C29: no token stands twice in the list that find_best_matches returns.
C29_NoTokenTwice ==
    pc = "found" =>
        \A i, j \in DOMAIN ret[1] : i # j => ret[1][i].token # ret[1][j].token

\* C26: at iteration 5 or later make_decision returns ACCEPT or REJECT,
\* never CONTINUE, for every score and for a previous score that is absent,
\* zero or positive.
C26_FinalIterationSettles ==
    (pc = "decided" /\ args.iteration >= 5) => ret[1] \in {ACCEPT, REJECT}

\* C26 witness: make_decision(0.90, 0.50, 6), a high score that fails the
\* context check past the final iteration, has returned ACCEPT.
C26_Witness ==
    /\ pc = "decided"
    /\ args.score = Pct(90)
    /\ args.previous_score = Some(Pct(50))
    /\ args.iteration = 6
    /\ ret = Some(ACCEPT)

\* C28: every round of the greedy loop of process_text moves the position i
\* forward, and i never passes the end of the input by more than one, so the
\* loop is left after at most as many rounds as the input has words; when it
\* is left every position of the input is marked processed, and the safety
\* sweep changes nothing.
C28_GreedyLoopCompletes ==
    /\ [][(pc = "greedy matching" /\ pc' = "greedy matching") => call'.i > call.i]_vars
    /\ [](pc = "greedy matching" => call.i <= Len(call.original_words) + 1)
    /\ [](pc = "safety check" => \A idx \in DOMAIN call.processed : call.processed[idx])
    /\ [][pc = "safety check" => call' = call]_vars

\* The greedy loop has been left after a window match on 'the cake dog':
\* the token, then the stop word of the window, and nothing unprocessed.
C28_Witness ==
    /\ pc = "safety check"
    /\ args.text = <<"the", "cake", "dog">>
    /\ call.i = 4
    /\ call.matched_count = 2
    /\ Len(call.output_parts) = 2
    /\ call.processed = <<TRUE, TRUE, TRUE>>

====
